---- MODULE Spec2Model ----
(***************************************************************************)
(* TreeP: the normalizer (CST -> EAST), the tree-walking interpreter, the  *)
(* Hindley-Milner type inference, the macro expander and the tree          *)
(* transducer, modelled from the TypeScript sources.  Trees are records;   *)
(* every recursive method of the sources is a RECURSIVE operator that      *)
(* threads the object's mutable fields (environments, return latch,        *)
(* substitution, ...) explicitly.                                          *)
(***************************************************************************)
EXTENDS Integers, Sequences, FiniteSets, TLC

VARIABLES
  iprog,    \* interpreter run: the parameters of the program handed to execute
  ipc,      \* interpreter run: "ready" | "done"
  ires,     \* interpreter run: what execute returned, printed and threw
  tprog,    \* inference run: the parameters of the program handed to infer
  tpc,      \* inference run: "ready" | "done"
  tres,     \* inference run: the type of each top-level element, env, state
  ust,      \* one TypeInference object driven through unify: [next, subst, err]
  ucall,    \* the arguments of the last unify call on it
  mvariant, \* expander run: which copy of the built-in macros is loaded
  mprog,    \* expander run: the parameters of the input tree
  mhist,    \* expander run: the input element list, then what each expand returned
  merr,     \* expander run: what expand threw
  minput,   \* expander run: the input element list as its objects stand now
  nprog,    \* normalizer run: the callee, arguments and block of the call
  npc,      \* normalizer run: "ready" | "done"
  nres,     \* normalizer run: the element of each of the two spellings
  xprog,    \* transducer run: the rule set, the matcher copy and the input tree
  xheap,    \* transducer run: the element objects, children by reference
  xin,      \* transducer run: the object handed to transform
  xout,     \* transducer run: the object returned / the loop's current tree
  xerr,     \* transducer run: what transform threw
  xiter,    \* transducer run: transform calls made
  xpc,      \* transducer run: "ready" | "loop" | "done"
  pprog,    \* TreeP instance: the parameters of the source it was built from
  pcurrent, \* TreeP instance: Parser.current, in top-level statements consumed
  ptypes,   \* TreeP instance: its TypeInference object [next, subst, err]
  pinterp,  \* TreeP instance: its Interpreter object [heap, ret, out, err]
  plog,     \* TreeP instance: what each call of run / getEAST returned
  linput,   \* lexer run: the input, a sequence of characters
  lpc,      \* lexer run: "ready" | "done"
  lres      \* lexer run: the tokens tokenize returned and what it threw

ivars == <<iprog, ipc, ires>>
tvars == <<tprog, tpc, tres>>
uvars == <<ust, ucall>>
mvars == <<mvariant, mprog, mhist, merr, minput>>
nvars == <<nprog, npc, nres>>
xvars == <<xprog, xheap, xin, xout, xerr, xiter, xpc>>
pvars == <<pprog, pcurrent, ptypes, pinterp, plog>>
lvars == <<linput, lpc, lres>>
vars == <<iprog, ipc, ires, tprog, tpc, tres, ust, ucall, mvariant, mprog, mhist, merr,
          minput, nprog, npc, nres, xprog, xheap, xin, xout, xerr, xiter, xpc,
          pprog, pcurrent, ptypes, pinterp, plog, linput, lpc, lres>>

-----------------------------------------------------------------------------
(* Element trees (ast/types Element).  An absent name is NoName, absent    *)
(* attrs / children are the empty sequence.                                *)

NoName == ""

Elem(kind, name, attrs, children) ==
  [kind |-> kind, name |-> name, attrs |-> attrs, children |-> children]

Attr(key, value) == [key |-> key, value |-> value]

\* Array.prototype.findIndex over children by kind, starting after position
\* `after` (1-based); 0 when no element qualifies (find returns undefined).
FindKind(children, kind, after) ==
  LET hits == {i \in 1..Len(children) : i > after /\ children[i].kind = kind}
  IN IF hits = {} THEN 0 ELSE CHOOSE i \in hits : \A j \in hits : i <= j

\* Array.prototype.filter(c => c.kind === 'param').map(p => p.name)
RECURSIVE ParamNames(_)
ParamNames(children) ==
  IF children = <<>> THEN <<>>
  ELSE IF Head(children).kind = "param"
       THEN <<Head(children).name>> \o ParamNames(Tail(children))
       ELSE ParamNames(Tail(children))

-----------------------------------------------------------------------------
(* CST nodes and the normalizer.                                           *)

NoBlock == [type |-> "None"]

CLit(ty, v) == [type |-> "Literal", literalType |-> ty, value |-> v]
CVar(n) == [type |-> "Variable", name |-> n]
CBin(op, l, r) == [type |-> "BinaryOp", operator |-> op, left |-> l, right |-> r]
CCall(f, args) == [type |-> "CallExpr", callee |-> f, args |-> args, blockArg |-> NoBlock]
CBlock(stmts) == [type |-> "Block", statements |-> stmts]
CRet(v) == [type |-> "ReturnStmt", value |-> v]
CIf(c, t, e) == [type |-> "IfExpr", condition |-> c, thenBranch |-> t, elseBranch |-> e]
\* a FunctionDef with declared types: paramTypes[i] is the paramType of the
\* i-th Parameter and returnType the declared return type, "" when not written
CDefTyped(n, ps, paramTypes, returnType, b) ==
  [type |-> "FunctionDef", name |-> n, params |-> ps, paramTypes |-> paramTypes,
   returnType |-> returnType, body |-> b]
CDef(n, ps, b) == CDefTyped(n, ps, [i \in 1..Len(ps) |-> ""], "", b)
CLambda(ps, b) == [type |-> "Lambda", params |-> ps, body |-> b]
CLet(n, v) == [type |-> "LetBinding", name |-> n, value |-> v]
CUn(op, operand) == [type |-> "UnaryOp", operator |-> op, operand |-> operand]
CWhile(c, b) == [type |-> "WhileLoop", condition |-> c, body |-> b]
CFor(v, from, to, b) == [type |-> "ForLoop", variable |-> v, from |-> from, to |-> to, body |-> b]

\* String(node.value) of a literal: numbers print in decimal, booleans as
\* true / false, strings unchanged.
Stringify(ty, v) ==
  IF ty = "Int" THEN ToString(v)
  ELSE IF ty = "Bool" THEN (IF v THEN "true" ELSE "false")
  ELSE v

RECURSIVE normalizeNode(_), normalizeAll(_)
ParamElems(ps) == [i \in 1..Len(ps) |-> Elem("param", ps[i], <<>>, <<>>)]

normalizeIfExpr(node) ==
  LET children == << Elem("condition", NoName, <<>>, <<normalizeNode(node.condition)>>),
                     normalizeNode(node.thenBranch) >>
  IN Elem("if", NoName, <<>>,
          IF node.elseBranch # NoBlock
          THEN Append(children, normalizeNode(node.elseBranch))
          ELSE children)

\* normalizeCallExpr that appends the block itself, without the lambda
normalizeCallExprBareBlock(node) ==
  LET args == normalizeAll(node.args)
  IN Elem("call", node.callee, <<>>,
          IF node.blockArg # NoBlock
          THEN Append(args, normalizeNode(node.blockArg))
          ELSE args)

normalizeCallExpr(node) ==
  LET args == normalizeAll(node.args)
  IN Elem("call", node.callee, <<>>,
          IF node.blockArg # NoBlock
          THEN Append(args, Elem("lambda", NoName, <<>>, <<normalizeNode(node.blockArg)>>))
          ELSE args)

\* normalizeFunctionDef: the attrs of the def are one (name, paramType) per
\* typed parameter, then (returns, returnType); a typed param element has the
\* attr (type, paramType)
RECURSIVE ParamTypeAttrs(_, _, _)
ParamTypeAttrs(params, paramTypes, i) ==
  IF i > Len(params) THEN <<>>
  ELSE (IF paramTypes[i] # "" THEN <<Attr(params[i], paramTypes[i])>> ELSE <<>>)
         \o ParamTypeAttrs(params, paramTypes, i + 1)

TypedParamElems(params, paramTypes) ==
  [i \in 1..Len(params) |->
     Elem("param", params[i],
          IF paramTypes[i] # "" THEN <<Attr("type", paramTypes[i])>> ELSE <<>>, <<>>)]

normalizeNode(node) ==
  CASE node.type = "FunctionDef" ->
         Elem("def", node.name,
              ParamTypeAttrs(node.params, node.paramTypes, 1)
                \o (IF node.returnType # "" THEN <<Attr("returns", node.returnType)>> ELSE <<>>),
              TypedParamElems(node.params, node.paramTypes) \o <<normalizeNode(node.body)>>)
    [] node.type = "LetBinding" ->
         Elem("let", node.name, <<>>, <<normalizeNode(node.value)>>)
    [] node.type = "IfExpr" -> normalizeIfExpr(node)
    [] node.type = "CallExpr" -> normalizeCallExpr(node)
    [] node.type = "BinaryOp" ->
         Elem("call", node.operator, <<>>,
              <<normalizeNode(node.left), normalizeNode(node.right)>>)
    [] node.type = "UnaryOp" ->
         Elem("call", "unary_" \o node.operator, <<>>, <<normalizeNode(node.operand)>>)
    [] node.type = "WhileLoop" ->
         Elem("while", NoName, <<>>,
              << Elem("condition", NoName, <<>>, <<normalizeNode(node.condition)>>),
                 normalizeNode(node.body) >>)
    [] node.type = "ForLoop" ->
         Elem("for", NoName, <<Attr("var", node.variable)>>,
              << Elem("from", NoName, <<>>, <<normalizeNode(node.from)>>),
                 Elem("to", NoName, <<>>, <<normalizeNode(node.to)>>),
                 normalizeNode(node.body) >>)
    [] node.type = "Variable" -> Elem("var", node.name, <<>>, <<>>)
    [] node.type = "Literal" ->
         Elem("literal", NoName,
              <<Attr("type", node.literalType),
                Attr("value", Stringify(node.literalType, node.value))>>, <<>>)
    [] node.type = "Lambda" ->
         Elem("lambda", NoName, <<>>,
              ParamElems(node.params) \o <<normalizeNode(node.body)>>)
    [] node.type = "Block" -> Elem("block", NoName, <<>>, normalizeAll(node.statements))
    [] node.type = "ReturnStmt" ->
         Elem("return", NoName, <<>>,
              IF node.value # NoBlock THEN <<normalizeNode(node.value)>> ELSE <<>>)

normalizeAll(nodes) == [i \in 1..Len(nodes) |-> normalizeNode(nodes[i])]

-----------------------------------------------------------------------------
(* Interpreter (interpreter/interpreter.ts).                               *)
(* Environments are Maps held by reference (closures keep the Map they     *)
(* were created in), so the model keeps a heap of environments and a       *)
(* closure names its environment by heap index; index 1 is globalEnv.      *)
(* An interpreter state is [heap, ret, out, err]: ret is the returnValue   *)
(* latch, out the lines console.log printed, err the thrown Error's        *)
(* message (NoErr while nothing was thrown).                               *)

IntV(n) == [kind |-> "Int", value |-> n]
StrV(s) == [kind |-> "String", value |-> s]
BoolV(b) == [kind |-> "Bool", value |-> b]
UnitV == [kind |-> "Unit"]
FunV(params, body, env) == [kind |-> "Function", params |-> params, body |-> body, env |-> env]
BuiltinV(fn) == [kind |-> "Builtin", fn |-> fn]
NoRet == [kind |-> "null"]
\* an Int value whose number is Infinity, -Infinity or NaN
NonFinite(s) == [kind |-> "Int", special |-> s]
IsNonFinite(val) == "special" \in DOMAIN val
NoErr == ""

ArithOps == {"-", "*", "/", "%"}
CmpOps == {"<", ">", "<=", ">=", "==", "!="}
BoolOps == {"&&", "||"}
BuiltinNames ==
  {"println", "toString", "error", "+", "unary_!", "unary_-"} \cup ArithOps \cup CmpOps \cup BoolOps

\* constructor + initBuiltins: globalEnv holds the built-ins, returnValue is null
InterpInit ==
  [heap |-> << [n \in BuiltinNames |-> BuiltinV(n)] >>,
   ret |-> NoRet, out |-> <<>>, err |-> NoErr]

R(v, st) == [v |-> v, st |-> st]

\* const x = <v>; K(x): v is evaluated once, then K continues with its value
Then(v, K(_)) == CHOOSE y \in {K(x) : x \in {v}} : TRUE
Throw(st, msg) == R(UnitV, [st EXCEPT !.err = msg])

valueToString(val) ==
  CASE val.kind = "Int" -> (IF IsNonFinite(val) THEN val.special ELSE ToString(val.value))
    [] val.kind = "String" -> val.value
    [] val.kind = "Bool" -> (IF val.value THEN "true" ELSE "false")
    [] val.kind = "Unit" -> "()"
    [] val.kind = "Function" -> "<function>"
    [] val.kind = "Builtin" -> "<builtin>"

\* parseInt(valueAttr.value) on the decimal strings the normalizer writes
MaxInt == 200
parseInt(s) == CHOOSE n \in 0..MaxInt : ToString(n) = s

\* Math.floor(a / b) for b # 0 (TLA+ \div already rounds toward -infinity)
FloorDiv(a, b) == IF b > 0 THEN a \div b ELSE (0 - a) \div (0 - b)
\* {kind: 'Int', value: Math.floor(a / b)}: a / 0 is Infinity, -Infinity or NaN
\* in JavaScript, and Math.floor keeps it
Quotient(a, b) ==
  IF b # 0 THEN IntV(FloorDiv(a, b))
  ELSE IF a > 0 THEN NonFinite("Infinity")
  ELSE IF a < 0 THEN NonFinite("-Infinity")
  ELSE NonFinite("NaN")
\* JavaScript %: the remainder takes the sign of the dividend
JsRem(a, b) ==
  LET ab == IF a < 0 THEN 0 - a ELSE a
      bb == IF b < 0 THEN 0 - b ELSE b
  IN IF a < 0 THEN 0 - (ab % bb) ELSE ab % bb
\* {kind: 'Int', value: a % b}: a % 0 is NaN
Remainder(a, b) == IF b # 0 THEN IntV(JsRem(a, b)) ELSE NonFinite("NaN")

\* env.get(name) || this.globalEnv.get(name); NoRet stands for undefined
Lookup(st, env, name) ==
  IF name \in DOMAIN st.heap[env] THEN st.heap[env][name]
  ELSE IF name \in DOMAIN st.heap[1] THEN st.heap[1][name]
  ELSE NoRet

\* env.set(name, value)
EnvSet(st, env, name, value) ==
  [st EXCEPT !.heap[env] =
     [n \in (DOMAIN st.heap[env]) \cup {name} |->
        IF n = name THEN value ELSE st.heap[env][n]]]

\* the fn of a Builtin value applied to the evaluated arguments
ApplyBuiltin(fn, args, st) ==
  CASE fn = "println" ->
         IF Len(args) = 0 THEN Throw(st, "TypeError")
         ELSE R(UnitV, [st EXCEPT !.out = Append(st.out, valueToString(args[1]))])
    [] fn = "toString" ->
         IF Len(args) = 0 THEN Throw(st, "TypeError")
         ELSE R(StrV(valueToString(args[1])), st)
    [] fn = "error" ->
         IF Len(args) = 0 THEN Throw(st, "TypeError")
         ELSE Throw(st, IF args[1].kind = "String" THEN args[1].value ELSE "Error")
    [] fn = "+" ->
         IF Len(args) # 2 THEN Throw(st, "+ expects 2 arguments")
         ELSE IF args[1].kind = "String" \/ args[2].kind = "String"
              THEN R(StrV(valueToString(args[1]) \o valueToString(args[2])), st)
         ELSE IF args[1].kind = "Int" /\ args[2].kind = "Int"
              THEN R(IntV(args[1].value + args[2].value), st)
         ELSE Throw(st, "+ expects Int or String arguments")
    [] fn \in ArithOps ->
         IF Len(args) # 2 THEN Throw(st, "expects 2 arguments")
         ELSE LET a == args[1].value
                  b == args[2].value
              IN R(CASE fn = "-" -> IntV(a - b)
                     [] fn = "*" -> IntV(a * b)
                     [] fn = "/" -> Quotient(a, b)
                     [] fn = "%" -> Remainder(a, b), st)
    [] fn \in CmpOps ->
         IF Len(args) # 2 THEN Throw(st, "expects 2 arguments")
         ELSE LET a == args[1].value
                  b == args[2].value
              IN R(BoolV(CASE fn = "<" -> a < b
                           [] fn = ">" -> a > b
                           [] fn = "<=" -> a <= b
                           [] fn = ">=" -> a >= b
                           [] fn = "==" -> a = b
                           [] fn = "!=" -> a # b), st)
    [] fn \in BoolOps ->
         IF Len(args) # 2 THEN Throw(st, "expects 2 arguments")
         ELSE IF args[1].kind # "Bool" \/ args[2].kind # "Bool"
              THEN Throw(st, "Expected boolean arguments")
         ELSE R(BoolV(IF fn = "&&" THEN args[1].value /\ args[2].value
                      ELSE args[1].value \/ args[2].value), st)
    [] fn = "unary_!" ->
         IF Len(args) = 0 THEN Throw(st, "TypeError")
         ELSE IF args[1].kind # "Bool" THEN Throw(st, "Expected boolean")
         ELSE R(BoolV(~args[1].value), st)
    [] fn = "unary_-" ->
         IF Len(args) = 0 THEN Throw(st, "TypeError")
         ELSE IF args[1].kind # "Int" THEN Throw(st, "Expected integer")
         ELSE R(IntV(0 - args[1].value), st)

RECURSIVE eval(_, _, _), evalArgs(_, _, _, _), evalStmts(_, _, _, _)
RECURSIVE evalWhile(_, _, _), evalForFrom(_, _, _, _, _, _)

\* elseBranch = children.find((c, i) => c.kind === 'block' && i > 0): the first
\* block at a 0-based index above 0, i.e. after the first child
ElseIndex(children) == FindKind(children, "block", 1)

evalIf(elem, env, st) ==
  LET children == elem.children
      ci == FindKind(children, "condition", 0)
      ti == FindKind(children, "block", 0)
      ei == ElseIndex(children)
  IN IF ci = 0 \/ children[ci].children = <<>> THEN Throw(st, "TypeError")
     ELSE Then(eval(children[ci].children[1], env, st), LAMBDA c :
            IF c.st.err # NoErr THEN c
            ELSE IF c.v.kind # "Bool" THEN Throw(c.st, "Condition must be boolean")
            ELSE IF c.v.value
                 THEN (IF ti = 0 THEN Throw(c.st, "TypeError")
                       ELSE eval(children[ti], env, c.st))
            ELSE IF ei # 0 THEN eval(children[ei], env, c.st)
            ELSE R(UnitV, c.st))

\* evalCall that leaves returnValue set when the function returned
evalCallKeepLatch(elem, env, st) ==
  Then(evalArgs(elem.children, 1, env, R(<<>>, st)), LAMBDA a :
  LET args == a.v
      func == Lookup(a.st, env, elem.name)
  IN IF a.st.err # NoErr THEN R(UnitV, a.st)
     ELSE IF func = NoRet THEN Throw(a.st, "Undefined function")
     ELSE IF func.kind = "Builtin" THEN ApplyBuiltin(func.fn, args, a.st)
     ELSE IF func.kind = "Function"
     THEN IF Len(args) # Len(func.params) THEN Throw(a.st, "Function expects arguments")
          ELSE LET base == a.st.heap[func.env]
                   newEnv == [n \in (DOMAIN base) \cup {func.params[i] : i \in 1..Len(args)} |->
                                IF \E i \in 1..Len(args) : func.params[i] = n
                                THEN args[CHOOSE i \in 1..Len(args) :
                                            /\ func.params[i] = n
                                            /\ \A j \in 1..Len(args) : func.params[j] = n => j <= i]
                                ELSE base[n]]
                   st1 == [a.st EXCEPT !.heap = Append(a.st.heap, newEnv)]
               IN Then(eval(func.body, Len(st1.heap), st1), LAMBDA r :
                    IF r.st.err # NoErr THEN r
                    ELSE IF r.st.ret # NoRet
                         THEN R(r.st.ret, r.st)
                    ELSE r)
     ELSE Throw(a.st, "is not a function"))

evalCall(elem, env, st) ==
  Then(evalArgs(elem.children, 1, env, R(<<>>, st)), LAMBDA a :
  LET args == a.v
      func == Lookup(a.st, env, elem.name)
  IN IF a.st.err # NoErr THEN R(UnitV, a.st)
     ELSE IF func = NoRet THEN Throw(a.st, "Undefined function")
     ELSE IF func.kind = "Builtin" THEN ApplyBuiltin(func.fn, args, a.st)
     ELSE IF func.kind = "Function"
     THEN IF Len(args) # Len(func.params) THEN Throw(a.st, "Function expects arguments")
          ELSE LET base == a.st.heap[func.env]
                   newEnv == [n \in (DOMAIN base) \cup {func.params[i] : i \in 1..Len(args)} |->
                                IF \E i \in 1..Len(args) : func.params[i] = n
                                THEN args[CHOOSE i \in 1..Len(args) :
                                            /\ func.params[i] = n
                                            /\ \A j \in 1..Len(args) : func.params[j] = n => j <= i]
                                ELSE base[n]]
                   st1 == [a.st EXCEPT !.heap = Append(a.st.heap, newEnv)]
               IN Then(eval(func.body, Len(st1.heap), st1), LAMBDA r :
                    IF r.st.err # NoErr THEN r
                    ELSE IF r.st.ret # NoRet
                         THEN R(r.st.ret, [r.st EXCEPT !.ret = NoRet])
                    ELSE r)
     ELSE Throw(a.st, "is not a function"))

\* (elem.children || []).map(arg => this.eval(arg, env)), left to right
evalArgs(children, i, env, acc) ==
  IF i > Len(children) \/ acc.st.err # NoErr THEN acc
  ELSE Then(eval(children[i], env, acc.st), LAMBDA r :
         evalArgs(children, i + 1, env, R(Append(acc.v, r.v), r.st)))

evalLiteral(elem, st) ==
  LET ti == CHOOSE i \in 1..Len(elem.attrs) : elem.attrs[i].key = "type"
      vi == CHOOSE i \in 1..Len(elem.attrs) : elem.attrs[i].key = "value"
      ty == elem.attrs[ti].value
      raw == elem.attrs[vi].value
  IN CASE ty = "Int" -> R(IntV(parseInt(raw)), st)
       [] ty = "String" -> R(StrV(raw), st)
       [] ty = "Bool" -> R(BoolV(raw = "true"), st)
       [] OTHER -> Throw(st, "Unknown literal type")

\* the statement loop of evalBlock, from statement i with `last` the value so far
evalStmts(stmts, i, env, acc) ==
  IF i > Len(stmts) \/ acc.st.err # NoErr THEN acc
  ELSE Then(eval(stmts[i], env, acc.st), LAMBDA r :
         IF r.st.err # NoErr THEN r
         ELSE IF r.st.ret # NoRet THEN R(r.st.ret, r.st)
         ELSE evalStmts(stmts, i + 1, env, r))

evalReturn(elem, env, st) ==
  Then(IF elem.children # <<>> THEN eval(elem.children[1], env, st) ELSE R(UnitV, st),
       LAMBDA r : IF r.st.err # NoErr THEN r
                  ELSE R(r.v, [r.st EXCEPT !.ret = r.v]))

\* the `while (true)` of evalWhile: condition, body, `if (this.returnValue) break`
evalWhile(elem, env, st) ==
  LET children == elem.children
      ci == FindKind(children, "condition", 0)
      bi == FindKind(children, "block", 0)
  IN IF ci = 0 \/ children[ci].children = <<>> THEN Throw(st, "TypeError")
     ELSE Then(eval(children[ci].children[1], env, st), LAMBDA c :
            IF c.st.err # NoErr THEN c
            ELSE IF c.v.kind # "Bool" THEN Throw(c.st, "While condition must be boolean")
            ELSE IF ~c.v.value THEN R(UnitV, c.st)
            ELSE IF bi = 0 THEN Throw(c.st, "TypeError")
            ELSE Then(eval(children[bi], env, c.st), LAMBDA r :
                   IF r.st.err # NoErr THEN r
                   ELSE IF r.st.ret # NoRet THEN R(UnitV, r.st)
                   ELSE evalWhile(elem, env, r.st)))

\* the `for (let i = ...; i <= to; i++)` of evalFor from i: a copy of env with
\* the loop variable, the body, `if (this.returnValue) break`
evalForFrom(body, varName, i, to, env, st) ==
  IF i > to THEN R(UnitV, st)
  ELSE LET st1 == [st EXCEPT !.heap = Append(st.heap, st.heap[env])]
           newEnv == Len(st1.heap)
       IN Then(eval(body, newEnv, EnvSet(st1, newEnv, varName, IntV(i))), LAMBDA r :
            IF r.st.err # NoErr THEN r
            ELSE IF r.st.ret # NoRet THEN R(UnitV, r.st)
            ELSE evalForFrom(body, varName, i + 1, to, env, r.st))

evalFor(elem, env, st) ==
  LET children == elem.children
      fi == FindKind(children, "from", 0)
      ti == FindKind(children, "to", 0)
      bi == FindKind(children, "block", 0)
      vi == FindKind([i \in 1..Len(elem.attrs) |-> [kind |-> elem.attrs[i].key]], "var", 0)
      varName == IF vi = 0 \/ elem.attrs[vi].value = "" THEN "i" ELSE elem.attrs[vi].value
  IN IF fi = 0 \/ ti = 0 \/ bi = 0 THEN Throw(st, "TypeError")
     ELSE Then(eval(children[fi].children[1], env, st), LAMBDA f :
            IF f.st.err # NoErr THEN f
            ELSE Then(eval(children[ti].children[1], env, f.st), LAMBDA t :
                   IF t.st.err # NoErr THEN t
                   ELSE IF f.v.kind # "Int" \/ t.v.kind # "Int"
                        THEN Throw(t.st, "For loop bounds must be integers")
                   ELSE evalForFrom(children[bi], varName, f.v.value, t.v.value, env, t.st)))

eval(elem, env, st) ==
  IF st.err # NoErr THEN R(UnitV, st)
  ELSE IF st.ret # NoRet THEN R(st.ret, st)
  ELSE CASE elem.kind = "def" ->
              LET bi == FindKind(elem.children, "block", 0)
                  func == FunV(ParamNames(elem.children),
                               IF bi = 0 THEN NoRet ELSE elem.children[bi], env)
              IN R(UnitV, EnvSet(st, env, elem.name, func))
         [] elem.kind = "let" ->
              IF elem.children = <<>> THEN Throw(st, "TypeError")
              ELSE Then(eval(elem.children[1], env, st), LAMBDA r :
                     IF r.st.err # NoErr THEN r
                     ELSE R(r.v, EnvSet(r.st, env, elem.name, r.v)))
         [] elem.kind = "if" -> evalIf(elem, env, st)
         [] elem.kind = "call" -> evalCall(elem, env, st)
         [] elem.kind = "var" ->
              LET value == Lookup(st, env, elem.name)
              IN IF value = NoRet THEN Throw(st, "Undefined variable") ELSE R(value, st)
         [] elem.kind = "literal" -> evalLiteral(elem, st)
         [] elem.kind = "lambda" ->
              LET bi == FindKind(elem.children, "block", 0)
              IN R(FunV(ParamNames(elem.children),
                        IF bi = 0 THEN NoRet ELSE elem.children[bi], env), st)
         [] elem.kind = "block" -> evalStmts(elem.children, 1, env, R(UnitV, st))
         [] elem.kind = "return" -> evalReturn(elem, env, st)
         [] elem.kind = "while" -> evalWhile(elem, env, st)
         [] elem.kind = "for" -> evalFor(elem, env, st)
         [] OTHER -> Throw(st, "Unknown element kind")

\* execute(elements): the top-level loop, then the automatic call of main
RECURSIVE executeTop(_, _, _)
executeTop(elements, i, acc) ==
  IF i > Len(elements) \/ acc.st.err # NoErr \/ acc.done THEN acc
  ELSE Then(eval(elements[i], 1, acc.st), LAMBDA r :
         IF r.st.err # NoErr THEN [v |-> r.v, st |-> r.st, done |-> TRUE]
         ELSE IF r.st.ret # NoRet
              THEN [v |-> r.st.ret, st |-> [r.st EXCEPT !.ret = NoRet], done |-> TRUE]
         ELSE executeTop(elements, i + 1, [v |-> r.v, st |-> r.st, done |-> FALSE]))

execute(elements, st0) ==
  Then(executeTop(elements, 1, [v |-> UnitV, st |-> st0, done |-> FALSE]), LAMBDA top :
  LET mainFunc == Lookup(top.st, 1, "main")
  IN IF top.done THEN R(top.v, top.st)
     ELSE IF mainFunc # NoRet /\ mainFunc.kind = "Function"
     THEN LET st1 == [top.st EXCEPT !.heap = Append(top.st.heap, top.st.heap[mainFunc.env])]
          IN Then(eval(mainFunc.body, Len(st1.heap), st1), LAMBDA r :
               IF r.st.err # NoErr THEN r
               ELSE IF r.st.ret # NoRet THEN R(r.st.ret, [r.st EXCEPT !.ret = NoRet])
               ELSE r)
     ELSE R(top.v, top.st))

-----------------------------------------------------------------------------
(* Interpreter runs.  A program is chosen at Init; Execute normalizes it   *)
(* and runs Interpreter.execute on a freshly constructed interpreter.      *)

MaxArg == 5

\* if (c) { println("then") <v 1> } else { println("else") <v 2> }, where <v k> is
\* `return k` inside a function and the expression k at top level
IfBranch(p, tag, k) ==
  CBlock(<< CCall("println", <<CLit("String", tag)>>),
            IF p.style = "top" THEN CLit("Int", k) ELSE CRet(CLit("Int", k)) >>)

IfCond(p) ==
  IF p.cond = "cmp" THEN CBin("<=", CLit("Int", p.n), CLit("Int", 1))
  ELSE CLit("Bool", p.cond = "true")

IfStmt(p) ==
  CIf(IfCond(p), IfBranch(p, "then", 1),
      IF p.hasElse THEN IfBranch(p, "else", 2) ELSE NoBlock)

\* def factorial(n) { if (n <= 1) { return 1 } else { return n * factorial(n - 1) } }
FactorialDef ==
  CDef("factorial", <<"n">>,
       CBlock(<< CIf(CBin("<=", CVar("n"), CLit("Int", 1)),
                     CBlock(<<CRet(CLit("Int", 1))>>),
                     CBlock(<<CRet(CBin("*", CVar("n"),
                                        CCall("factorial",
                                              <<CBin("-", CVar("n"), CLit("Int", 1))>>)))>>)) >>))

MaxOperand == 3

\* the integer n as the parser reads it: -n is the unary minus of the literal
IntExpr(n) == IF n < 0 THEN CUn("-", CLit("Int", 0 - n)) ELSE CLit("Int", n)

\* a / b, or (a / b) * b + (a % b)
DivExpr(p) ==
  IF p.shape = "quot" THEN CBin("/", IntExpr(p.a), IntExpr(p.b))
  ELSE CBin("+", CBin("*", CBin("/", IntExpr(p.a), IntExpr(p.b)), IntExpr(p.b)),
            CBin("%", IntExpr(p.a), IntExpr(p.b)))

\* println("iter"); return n; println("late")
ReturnStmts(p) ==
  << CCall("println", <<CLit("String", "iter")>>),
     CRet(CLit("Int", p.n)),
     CCall("println", <<CLit("String", "late")>>) >>

\* def f() { <return n, plain or inside a while / for / if>; println("after") }
ReturnDef(p) ==
  CDef("f", <<>>,
       CBlock(<< CASE p.shape = "plain" -> CBlock(ReturnStmts(p))
                   [] p.shape = "while" -> CWhile(CLit("Bool", TRUE), CBlock(ReturnStmts(p)))
                   [] p.shape = "for" ->
                        CFor("i", CLit("Int", 1), CLit("Int", 3), CBlock(ReturnStmts(p)))
                   [] p.shape = "if" -> CIf(CLit("Bool", TRUE), CBlock(ReturnStmts(p)), NoBlock),
                 CCall("println", <<CLit("String", "after")>>) >>))

\* let r = f(); println("caller"); r
CallerStmts ==
  << CLet("r", CCall("f", <<>>)),
     CCall("println", <<CLit("String", "caller")>>),
     CVar("r") >>

ProgCST(p) ==
  CASE p.fam = "empty" -> <<>>
    [] p.fam = "incdec" ->
         << CLet("x", IntExpr(p.n)), CCall(p.shape, <<CVar("x")>>), CVar("x") >>
    [] p.fam = "ret" /\ p.style = "top" -> <<ReturnDef(p)>> \o CallerStmts
    [] p.fam = "ret" /\ p.style = "main" ->
         << ReturnDef(p), CDef("main", <<>>, CBlock(CallerStmts)) >>
    [] p.fam = "ret" /\ p.style = "loop" ->
         << ReturnDef(p),
            CFor("j", CLit("Int", 1), CLit("Int", 2),
                 CBlock(<< CCall("println", <<CCall("f", <<>>)>>) >>)),
            CCall("println", <<CLit("String", "caller")>>),
            CCall("f", <<>>) >>
    [] p.fam = "div" -> << DivExpr(p) >>
    [] p.fam = "if" /\ p.style = "top" -> << IfStmt(p) >>
    [] p.fam = "if" /\ p.style = "fn" ->
         << CDef("f", <<>>, CBlock(<< IfStmt(p), CCall("println", <<CLit("String", "after")>>) >>)),
            CCall("f", <<>>) >>
    [] p.fam = "if" /\ p.style = "main" ->
         << CDef("main", <<>>, CBlock(<< IfStmt(p), CCall("println", <<CLit("String", "after")>>) >>)) >>
    [] p.fam = "fact" ->
         << FactorialDef,
            CCall("println", <<CCall("factorial", <<CLit("Int", p.n)>>)>>),
            CCall("factorial", <<CLit("Int", p.n)>>) >>

IPrograms ==
  [fam : {"if"}, style : {"top", "fn", "main"}, cond : {"true", "false"},
   hasElse : BOOLEAN, n : {0}, shape : {"if"}, a : {0}, b : {0}]
  \cup [fam : {"if"}, style : {"top", "fn", "main"}, cond : {"cmp"},
        hasElse : BOOLEAN, n : 0..MaxArg, shape : {"if"}, a : {0}, b : {0}]
  \cup [fam : {"fact"}, style : {"top"}, cond : {"cmp"}, hasElse : {TRUE}, n : 0..MaxArg,
        shape : {"if"}, a : {0}, b : {0}]
  \cup [fam : {"ret"}, style : {"top", "main", "loop"}, cond : {"true"}, hasElse : {FALSE},
        n : 0..MaxArg, shape : {"plain", "while", "for", "if"}, a : {0}, b : {0}]
  \cup [fam : {"div"}, style : {"top"}, cond : {"true"}, hasElse : {FALSE}, n : {0},
        shape : {"quot"}, a : (0 - MaxOperand)..MaxOperand, b : (0 - MaxOperand)..MaxOperand]
  \cup [fam : {"div"}, style : {"top"}, cond : {"true"}, hasElse : {FALSE}, n : {0},
        shape : {"identity"}, a : (0 - MaxOperand)..MaxOperand,
        b : ((0 - MaxOperand)..MaxOperand) \ {0}]

NoResult == [value |-> UnitV, out |-> <<>>, err |-> NoErr, ret |-> NoRet]

IInit ==
  /\ iprog \in IPrograms
  /\ ipc = "ready"
  /\ ires = NoResult

Execute ==
  /\ ipc = "ready"
  /\ \E r \in {execute(normalizeAll(ProgCST(iprog)), InterpInit)} :
       ires' = [value |-> r.v, out |-> r.st.out, err |-> r.st.err, ret |-> r.st.ret]
  /\ ipc' = "done"
  /\ UNCHANGED iprog

-----------------------------------------------------------------------------
(* Type inference (type/inference: class TypeInference).                   *)
(* An inference state is [next, subst, err]: the nextVarId counter, the    *)
(* substitution Map (a function from variable names to types) and the      *)
(* message of the thrown Error.  A TypeEnv is a function from names to     *)
(* schemes [typeVars, type]; methods that call env.set return the env.     *)

TVar(n) == [kind |-> "TypeVar", name |-> n]
TCon(n) == [kind |-> "TypeCon", name |-> n]
makeFun(from, to) == [kind |-> "TypeFun", from |-> from, to |-> to]
Scheme(tvs, t) == [typeVars |-> tvs, type |-> t]

TInit == [next |-> 0, subst |-> <<>>, err |-> NoErr]

\* freshVar(): `t${this.nextVarId++}`
VarName(id) == "t" \o ToString(id)
freshVar(st) == [t |-> TVar(VarName(st.next)), st |-> [st EXCEPT !.next = st.next + 1]]

TThrow(st, msg) == [st EXCEPT !.err = msg]

RECURSIVE apply(_, _)
apply(sub, type) ==
  IF type.kind = "TypeVar"
  THEN (IF type.name \in DOMAIN sub THEN apply(sub, sub[type.name]) ELSE type)
  ELSE IF type.kind = "TypeFun"
  THEN makeFun(apply(sub, type.from), apply(sub, type.to))
  ELSE type

RECURSIVE occursIn(_, _, _)
occursIn(sub, name, type) ==
  LET applied == apply(sub, type)
  IN IF applied.kind = "TypeVar" THEN applied.name = name
     ELSE IF applied.kind = "TypeFun"
     THEN occursIn(sub, name, applied.from) \/ occursIn(sub, name, applied.to)
     ELSE FALSE

\* bindVar without the occurs check
bindVarNoOccursCheck(name, type, st) ==
  IF type.kind = "TypeVar" /\ type.name = name THEN st
  ELSE [st EXCEPT !.subst =
          [n \in (DOMAIN st.subst) \cup {name} |-> IF n = name THEN type ELSE st.subst[n]]]

bindVar(name, type, st) ==
  IF type.kind = "TypeVar" /\ type.name = name THEN st
  ELSE IF occursIn(st.subst, name, type) THEN TThrow(st, "Infinite type")
  ELSE [st EXCEPT !.subst =
          [n \in (DOMAIN st.subst) \cup {name} |-> IF n = name THEN type ELSE st.subst[n]]]

\* unify that does not apply the substitution to its arguments first
RECURSIVE unifyNoApply(_, _, _)
unifyNoApply(t1, t2, st) ==
  IF st.err # NoErr THEN st
  ELSE IF t1.kind = "TypeVar" THEN bindVar(t1.name, t2, st)
  ELSE IF t2.kind = "TypeVar" THEN bindVar(t2.name, t1, st)
  ELSE IF t1.kind = "TypeCon" /\ t2.kind = "TypeCon"
  THEN (IF t1.name # t2.name THEN TThrow(st, "Type mismatch") ELSE st)
  ELSE IF t1.kind = "TypeFun" /\ t2.kind = "TypeFun"
  THEN unifyNoApply(t1.to, t2.to, unifyNoApply(t1.from, t2.from, st))
  ELSE TThrow(st, "Cannot unify")

RECURSIVE unify(_, _, _)
unify(t1, t2, st) ==
  IF st.err # NoErr THEN st
  ELSE LET a1 == apply(st.subst, t1)
           a2 == apply(st.subst, t2)
       IN IF a1.kind = "TypeVar" THEN bindVar(a1.name, a2, st)
          ELSE IF a2.kind = "TypeVar" THEN bindVar(a2.name, a1, st)
          ELSE IF a1.kind = "TypeCon" /\ a2.kind = "TypeCon"
          THEN (IF a1.name # a2.name THEN TThrow(st, "Type mismatch") ELSE st)
          ELSE IF a1.kind = "TypeFun" /\ a2.kind = "TypeFun"
          THEN unify(a1.to, a2.to, unify(a1.from, a2.from, st))
          ELSE TThrow(st, "Cannot unify")

\* Set insertion order: the names in order of first occurrence
RECURSIVE Dedup(_)
Dedup(seq) ==
  IF seq = <<>> THEN <<>>
  ELSE LET init == Dedup(SubSeq(seq, 1, Len(seq) - 1))
           last == seq[Len(seq)]
       IN IF \E i \in 1..Len(init) : init[i] = last THEN init ELSE Append(init, last)

RECURSIVE freeVarsList(_, _)
freeVarsList(sub, type) ==
  LET applied == apply(sub, type)
  IN IF applied.kind = "TypeVar" THEN <<applied.name>>
     ELSE IF applied.kind = "TypeFun"
     THEN freeVarsList(sub, applied.from) \o freeVarsList(sub, applied.to)
     ELSE <<>>

freeVars(sub, type) == Dedup(freeVarsList(sub, type))

Range(seq) == {seq[i] : i \in 1..Len(seq)}

\* generalize that quantifies nothing
generalizeMonomorphic(env, type, st) == Scheme(<<>>, apply(st.subst, type))

generalize(env, type, st) ==
  LET appliedType == apply(st.subst, type)
      fv == freeVars(st.subst, appliedType)
      envFreeVars == UNION {Range(freeVars(st.subst, env[n].type)) : n \in DOMAIN env}
      keep == {i \in 1..Len(fv) : fv[i] \notin envFreeVars}
      pos(k) == CHOOSE i \in keep : Cardinality({j \in keep : j <= i}) = k
  IN Scheme([k \in 1..Cardinality(keep) |-> fv[pos(k)]], appliedType)

RECURSIVE substituteType(_, _)
substituteType(type, subst) ==
  IF type.kind = "TypeVar"
  THEN (IF type.name \in DOMAIN subst THEN subst[type.name] ELSE type)
  ELSE IF type.kind = "TypeFun"
  THEN makeFun(substituteType(type.from, subst), substituteType(type.to, subst))
  ELSE type

\* each quantified variable gets the next fresh variable, in typeVars order
\* (a repeated name keeps the last one set)
instantiate(scheme, st) ==
  LET k == Len(scheme.typeVars)
      subst == [n \in Range(scheme.typeVars) |->
                  TVar(VarName(st.next - 1 +
                       CHOOSE i \in 1..k : /\ scheme.typeVars[i] = n
                                           /\ \A j \in 1..k : scheme.typeVars[j] = n => j <= i))]
  IN [t |-> substituteType(scheme.type, subst), st |-> [st EXCEPT !.next = st.next + k]]

EnvPut(env, name, scheme) ==
  [n \in (DOMAIN env) \cup {name} |-> IF n = name THEN scheme ELSE env[n]]

\* addBuiltins(env): one fresh variable a is shared by println, toString and error
addBuiltins(env, st) ==
  LET a == freshVar(st)
      int == TCon("Int")
      bool == TCon("Bool")
      str == TCon("String")
      sig(n) ==
        CASE n \in {"+", "-", "*", "/", "%"} -> Scheme(<<>>, makeFun(int, makeFun(int, int)))
          [] n \in CmpOps -> Scheme(<<>>, makeFun(int, makeFun(int, bool)))
          [] n \in BoolOps -> Scheme(<<>>, makeFun(bool, makeFun(bool, bool)))
          [] n = "unary_!" -> Scheme(<<>>, makeFun(bool, bool))
          [] n = "unary_-" -> Scheme(<<>>, makeFun(int, int))
          [] n = "println" -> Scheme(<<a.t.name>>, makeFun(a.t, TCon("Unit")))
          [] n = "toString" -> Scheme(<<a.t.name>>, makeFun(a.t, str))
          [] n = "error" -> Scheme(<<a.t.name>>, makeFun(str, a.t))
  IN [env |-> [n \in (DOMAIN env) \cup BuiltinNames |->
                 IF n \in BuiltinNames THEN sig(n) ELSE env[n]],
      st |-> a.st]

\* the result of an infer* method: its type, the (possibly updated) env it was
\* given, and the inference state
TR(t, env, st) == [t |-> t, env |-> env, st |-> st]
TFail(env, st, msg) == TR(TCon("Unit"), env, TThrow(st, msg))

\* paramTypes = params.map(() => this.freshVar())
ParamTypes(params, st) == [i \in 1..Len(params) |-> TVar(VarName(st.next + i - 1))]

\* newEnv = new Map(env) with every parameter bound to its monomorphic variable
ParamEnv(env, params, paramTypes) ==
  [n \in (DOMAIN env) \cup Range(params) |->
     IF n \in Range(params)
     THEN Scheme(<<>>, paramTypes[CHOOSE i \in 1..Len(params) :
                                     /\ params[i] = n
                                     /\ \A j \in 1..Len(params) : params[j] = n => j <= i])
     ELSE env[n]]

\* funType = p1 -> (p2 -> ... -> result), folded from the last parameter
RECURSIVE FoldFun(_, _)
FoldFun(paramTypes, result) ==
  IF paramTypes = <<>> THEN result
  ELSE makeFun(Head(paramTypes), FoldFun(Tail(paramTypes), result))

RECURSIVE inferElement(_, _, _), inferArgs(_, _, _), inferStmts(_, _, _)

inferFunctionDef(elem, env, st) ==
  LET params == ParamNames(elem.children)
      bi == FindKind(elem.children, "block", 0)
      paramTypes == ParamTypes(params, st)
      returnType == TVar(VarName(st.next + Len(params)))
      st1 == [st EXCEPT !.next = st.next + Len(params) + 1]
      b == inferElement(elem.children[bi], ParamEnv(env, params, paramTypes), st1)
      st2 == unify(b.t, returnType, b.st)
      funType == FoldFun([i \in 1..Len(params) |-> apply(st2.subst, paramTypes[i])],
                         apply(st2.subst, returnType))
  IN IF bi = 0 THEN TFail(env, st, "Function has no body")
     ELSE IF st2.err # NoErr THEN TR(TCon("Unit"), env, st2)
     ELSE TR(funType, EnvPut(env, elem.name, generalize(env, funType, st2)), st2)

inferLet(elem, env, st) ==
  IF elem.children = <<>> THEN TFail(env, st, "Let binding has no value")
  ELSE LET v == inferElement(elem.children[1], env, st)
       IN IF v.st.err # NoErr THEN v
          ELSE TR(v.t, EnvPut(v.env, elem.name, generalize(v.env, v.t, v.st)), v.st)

\* elseBranch = children.find((c, i) => c.kind === 'block' && i > 0)
inferElseIndex(children) == FindKind(children, "block", 1)

inferIf(elem, env, st) ==
  LET children == elem.children
      ci == FindKind(children, "condition", 0)
      ti == FindKind(children, "block", 0)
      ei == inferElseIndex(children)
  IN IF ci = 0 \/ ti = 0 THEN TFail(env, st, "Invalid if expression")
     ELSE LET c == inferElement(children[ci].children[1], env, st)
              st1 == unify(c.t, TCon("Bool"), c.st)
              th == inferElement(children[ti], c.env, st1)
          IN IF ei = 0 \/ th.st.err # NoErr THEN th
             ELSE LET el == inferElement(children[ei], th.env, th.st)
                  IN TR(th.t, el.env, unify(th.t, el.t, el.st))

\* the argument loop of inferCall: acc.t is funType so far
inferArgs(args, i, acc) ==
  IF i > Len(args) \/ acc.st.err # NoErr THEN acc
  ELSE LET a == inferElement(args[i], acc.env, acc.st)
           r == freshVar(a.st)
           st1 == unify(acc.t, makeFun(a.t, r.t), r.st)
       IN IF a.st.err # NoErr THEN a
          ELSE inferArgs(args, i + 1, TR(apply(st1.subst, r.t), a.env, st1))

inferCall(elem, env, st) ==
  IF elem.name \notin DOMAIN env THEN TFail(env, st, "Undefined function")
  ELSE LET f == instantiate(env[elem.name], st)
       IN inferArgs(elem.children, 1, TR(f.t, env, f.st))

inferLambda(elem, env, st) ==
  LET params == ParamNames(elem.children)
      bi == FindKind(elem.children, "block", 0)
      paramTypes == ParamTypes(params, st)
      st1 == [st EXCEPT !.next = st.next + Len(params)]
      b == inferElement(elem.children[bi], ParamEnv(env, params, paramTypes), st1)
  IN IF bi = 0 THEN TFail(env, st, "Lambda has no body")
     ELSE TR(FoldFun(paramTypes, b.t), env, b.st)

\* the statement loop of inferBlock; acc.t is lastType
inferStmts(stmts, i, acc) ==
  IF i > Len(stmts) \/ acc.st.err # NoErr THEN acc
  ELSE inferStmts(stmts, i + 1, inferElement(stmts[i], acc.env, acc.st))

inferLiteral(elem, env, st) ==
  LET hits == {i \in 1..Len(elem.attrs) : elem.attrs[i].key = "type"}
  IN IF hits = {} THEN TFail(env, st, "Literal has no type attribute")
     ELSE TR(TCon(elem.attrs[CHOOSE i \in hits : \A j \in hits : i <= j].value), env, st)

inferElement(elem, env, st) ==
  IF st.err # NoErr THEN TR(TCon("Unit"), env, st)
  ELSE CASE elem.kind = "def" -> inferFunctionDef(elem, env, st)
         [] elem.kind = "let" -> inferLet(elem, env, st)
         [] elem.kind = "if" -> inferIf(elem, env, st)
         [] elem.kind = "call" -> inferCall(elem, env, st)
         [] elem.kind = "var" ->
              IF elem.name \notin DOMAIN env THEN TFail(env, st, "Undefined variable")
              ELSE LET v == instantiate(env[elem.name], st) IN TR(v.t, env, v.st)
         [] elem.kind = "literal" -> inferLiteral(elem, env, st)
         [] elem.kind = "lambda" -> inferLambda(elem, env, st)
         [] elem.kind = "block" -> inferStmts(elem.children, 1, TR(TCon("Unit"), env, st))
         [] elem.kind = "return" ->
              IF elem.children # <<>> THEN inferElement(elem.children[1], env, st)
              ELSE TR(TCon("Unit"), env, st)
         [] elem.kind = "while" ->
              LET ci == FindKind(elem.children, "condition", 0)
                  bi == FindKind(elem.children, "block", 0)
              IN IF ci = 0 \/ bi = 0 THEN TFail(env, st, "Invalid while loop")
                 ELSE LET c == inferElement(elem.children[ci].children[1], env, st)
                          b == inferElement(elem.children[bi], c.env,
                                            unify(c.t, TCon("Bool"), c.st))
                      IN TR(TCon("Unit"), b.env, b.st)
         [] elem.kind = "for" ->
              LET fi == FindKind(elem.children, "from", 0)
                  ti == FindKind(elem.children, "to", 0)
                  bi == FindKind(elem.children, "block", 0)
                  vs == {i \in 1..Len(elem.attrs) : elem.attrs[i].key = "var"}
              IN IF fi = 0 \/ ti = 0 \/ bi = 0 THEN TFail(env, st, "Invalid for loop")
                 ELSE LET f == inferElement(elem.children[fi].children[1], env, st)
                          t == inferElement(elem.children[ti].children[1], f.env, f.st)
                          st1 == unify(t.t, TCon("Int"), unify(f.t, TCon("Int"), t.st))
                          var == elem.attrs[CHOOSE i \in vs : \A j \in vs : i <= j].value
                      IN IF vs = {} THEN TR(TCon("Unit"), t.env, st1)
                         ELSE TR(TCon("Unit"), t.env,
                                 inferElement(elem.children[bi],
                                              EnvPut(t.env, var, Scheme(<<>>, TCon("Int"))),
                                              st1).st)
         [] OTHER -> LET v == freshVar(st) IN TR(v.t, env, v.st)

\* infer(elements): a copy of env with the built-ins, then every element in order
infer(elements, st) ==
  LET b == addBuiltins(<<>>, st)
  IN inferStmts(elements, 1, TR(TCon("Unit"), b.env, b.st))

-----------------------------------------------------------------------------
(* Inference runs.  A program is chosen at Init; Infer runs                *)
(* TypeInference.infer on a freshly constructed TypeInference.             *)

MaxParams == 2
MaxCallArgs == 3
LitTypes == {"Int", "String", "Bool"}

SampleLit(ty) ==
  CASE ty = "Int" -> CLit("Int", 42)
    [] ty = "String" -> CLit("String", "x")
    [] ty = "Bool" -> CLit("Bool", TRUE)

ArityParams(k) == SubSeq(<<"x", "y", "z", "w">>, 1, k)

\* the body of the def of the arity programs: the sum of its parameters, its
\* first parameter, or a call of error
ArityBody(p) ==
  CASE p.body = "sum" ->
         (IF p.k = 0 THEN CLit("Int", 0)
          ELSE IF p.k = 1 THEN CBin("+", CVar("x"), CLit("Int", 1))
          ELSE CBin("+", CVar("x"), CVar("y")))
    [] p.body = "first" -> (IF p.k = 0 THEN CLit("Int", 0) ELSE CVar("x"))
    [] p.body = "error" -> CCall("error", <<CLit("String", "e")>>)

\* a declared type as written in the source, "" when there is none
Declared(ty) == IF ty = "none" THEN "" ELSE ty

TProgCST(p) ==
  CASE p.fam = "loop" ->
         << CDef("loop", <<"x">>, CBlock(<<CRet(CCall("loop", <<CVar("x")>>))>>)) >>
    [] p.fam = "fact" -> << FactorialDef >>
    [] p.fam = "ident" ->
         << CDef("identity", <<"x">>, CBlock(<<CRet(CVar("x"))>>)),
            CCall("identity", <<SampleLit(p.a1)>>),
            CCall("identity", <<SampleLit(p.a2)>>) >>
    [] p.fam = "if" ->
         << CIf(CLit("Bool", TRUE), CBlock(<<SampleLit(p.a1)>>),
                IF p.a2 = "none" THEN NoBlock ELSE CBlock(<<SampleLit(p.a2)>>)) >>
    [] p.fam = "selfapp" ->
         << CLambda(<<"x">>, CBlock(<<CCall("x", <<CVar("x")>>)>>)) >>
    [] p.fam = "arity" ->
         << CDef("f", ArityParams(p.k), CBlock(<<CRet(ArityBody(p))>>)),
            CCall("f", [i \in 1..p.m |-> CLit("Int", i)]) >>
    [] p.fam = "annot" ->
         << CDefTyped("f", <<"x">>, <<Declared(p.a1)>>, Declared(p.a2),
                      CBlock(<<CRet(ArityBody(p))>>)) >>

TPrograms ==
  [fam : {"loop", "fact", "selfapp"}, a1 : {"Int"}, a2 : {"Int"}, body : {"sum"}, k : {1}, m : {1}]
  \cup [fam : {"ident"}, a1 : LitTypes, a2 : LitTypes, body : {"sum"}, k : {1}, m : {1}]
  \cup [fam : {"if"}, a1 : LitTypes, a2 : LitTypes \cup {"none"}, body : {"sum"}, k : {1}, m : {1}]
  \cup [fam : {"arity"}, a1 : {"Int"}, a2 : {"Int"}, body : {"sum", "first", "error"},
        k : 0..MaxParams, m : 0..MaxCallArgs]
  \cup [fam : {"annot"}, a1 : LitTypes \cup {"none"}, a2 : LitTypes \cup {"none"},
        body : {"sum", "first"}, k : {1}, m : {1}]

NoTypes == [types |-> <<>>, env |-> <<>>, subst |-> <<>>, next |-> 0, err |-> NoErr]

TRunInit ==
  /\ tprog \in TPrograms
  /\ tpc = "ready"
  /\ tres = NoTypes

\* Infer: new TypeInference().infer(elements); types[k] is what inferElement
\* returned for the k-th top-level element
Infer ==
  /\ tpc = "ready"
  /\ LET elements == normalizeAll(TProgCST(tprog))
         r == infer(elements, TInit)
     IN tres' = [types |-> [k \in 1..Len(elements) |->
                              infer(SubSeq(elements, 1, k), TInit).t],
                 env |-> r.env, subst |-> r.st.subst, next |-> r.st.next,
                 err |-> r.st.err]
  /\ tpc' = "done"
  /\ UNCHANGED tprog

-----------------------------------------------------------------------------
(* One TypeInference object driven through unify directly.                 *)

NumTypeVars == 2
MaxUnifyCalls == 2

UAtoms == {TVar(VarName(i)) : i \in 0..(NumTypeVars - 1)} \cup {TCon("Int")}
UTypes == UAtoms \cup {makeFun(a, b) : a \in UAtoms, b \in UAtoms}
NoCall == [n |-> 0, t1 |-> TCon("Int"), t2 |-> TCon("Int"), before |-> <<>>]

UInit ==
  /\ ust = [TInit EXCEPT !.next = NumTypeVars]
  /\ ucall = NoCall

\* a call unify(t1, t2); a throw of an earlier call does not outlive that call
UnifyCall ==
  /\ ucall.n < MaxUnifyCalls
  /\ \E t1 \in UTypes, t2 \in UTypes :
       /\ ust' = unify(t1, t2, [ust EXCEPT !.err = NoErr])
       /\ ucall' = [n |-> ucall.n + 1, t1 |-> t1, t2 |-> t2, before |-> ust.subst]

-----------------------------------------------------------------------------
(* Macro expander (macro/expander.ts) and the built-in macros.             *)
(* The repository holds two copies of the built-in macros that differ in   *)
(* the body position of when / ifZero / ifPositive / until:                *)
(* macro/builtins.ts wraps the body argument in a call named `call`, the   *)
(* other copy (part_010) unwraps a lambda's first child.  Which copy a     *)
(* build loads is an input of the run (variant).                           *)

\* args.get(v) of a pattern variable with no argument: undefined
Undef == Elem("undefined", NoName, <<>>, <<>>)

makeCall(name, args) == Elem("call", name, <<>>, args)

makeIf(cond, thenBranch) ==
  Elem("if", NoName, <<>>, << Elem("condition", NoName, <<>>, <<cond>>), thenBranch >>)

StringLit(v) == Elem("literal", NoName, <<Attr("type", "String"), Attr("value", v)>>, <<>>)
IntLit(v) == Elem("literal", NoName, <<Attr("type", "Int"), Attr("value", v)>>, <<>>)

\* the $names of each built-in macro's pattern, in order (what matchPattern's
\* regular expression extracts from the pattern string)
MacroPattern ==
  [when |-> <<"cond", "body">>, assert |-> <<"cond">>, debug |-> <<"expr">>,
   log |-> <<"msg">>, trace |-> <<"expr">>, inc |-> <<"x">>, dec |-> <<"x">>,
   ifZero |-> <<"x", "body">>, ifPositive |-> <<"x", "body">>,
   until |-> <<"cond", "body">>]

MacroNames == DOMAIN MacroPattern

\* matchPattern: the i-th pattern variable is bound to the i-th argument when
\* there is one; surplus arguments are dropped
matchPattern(pattern, args) ==
  [v \in {pattern[i] : i \in 1..Len(pattern)} |->
     LET i == CHOOSE j \in 1..Len(pattern) : pattern[j] = v
     IN IF i <= Len(args) THEN args[i] ELSE Undef]

\* the then / loop block built from the body argument
BodyBlock(variant, body) ==
  IF variant = "builtins"
  THEN Elem("block", NoName, <<>>, <<makeCall("call", <<body>>)>>)
  ELSE IF body.kind = "lambda" /\ body.children # <<>>
       THEN body.children[1]
       ELSE Elem("block", NoName, <<>>, <<body>>)

\* macro.expand(args); a TypeError inside it (reading a field of undefined)
\* is reported as err
MacroExpand(variant, name, args) ==
  LET ok(t) == [t |-> t, err |-> NoErr]
      bodyErr == variant # "builtins" /\ args["body"] = Undef
      fail == [t |-> Undef, err |-> "TypeError"]
  IN CASE name = "when" ->
            IF bodyErr THEN fail
            ELSE ok(makeIf(args["cond"], BodyBlock(variant, args["body"])))
       [] name = "assert" ->
            ok(makeIf(makeCall("unary_!", <<args["cond"]>>),
                      Elem("block", NoName, <<>>,
                           <<makeCall("error", <<StringLit("Assertion failed")>>)>>)))
       [] name = "debug" ->
            ok(makeCall("println",
                 <<makeCall("+", <<StringLit("Debug: "), makeCall("toString", <<args["expr"]>>)>>)>>))
       [] name = "log" ->
            ok(makeCall("println", <<makeCall("+", <<StringLit("[LOG] "), args["msg"]>>)>>))
       [] name = "trace" ->
            ok(Elem("block", NoName, <<>>,
                 << Elem("let", "__trace_result", <<>>, <<args["expr"]>>),
                    makeCall("println",
                      <<makeCall("+", <<StringLit("Trace: "),
                          makeCall("toString", <<Elem("var", "__trace_result", <<>>, <<>>)>>)>>)>>),
                    Elem("var", "__trace_result", <<>>, <<>>) >>))
       [] name = "inc" ->
            ok(makeCall("=", <<args["x"], makeCall("+", <<args["x"], IntLit("1")>>)>>))
       [] name = "dec" ->
            ok(makeCall("=", <<args["x"], makeCall("-", <<args["x"], IntLit("1")>>)>>))
       [] name = "ifZero" ->
            IF bodyErr THEN fail
            ELSE ok(makeIf(makeCall("==", <<args["x"], IntLit("0")>>),
                           BodyBlock(variant, args["body"])))
       [] name = "ifPositive" ->
            IF bodyErr THEN fail
            ELSE ok(makeIf(makeCall(">", <<args["x"], IntLit("0")>>),
                           BodyBlock(variant, args["body"])))
       [] name = "until" ->
            IF bodyErr THEN fail
            ELSE ok(Elem("while", NoName, <<>>,
                      << Elem("condition", NoName, <<>>, <<makeCall("unary_!", <<args["cond"]>>)>>),
                         BodyBlock(variant, args["body"]) >>))

RECURSIVE expandElement(_, _), expandChildren(_, _, _, _)

\* expandMacroCall without re-expanding the expansion
expandMacroCallOnce(variant, elem) ==
  MacroExpand(variant, elem.name, matchPattern(MacroPattern[elem.name], elem.children))

expandMacroCall(variant, elem) ==
  LET expanded == MacroExpand(variant, elem.name,
                              matchPattern(MacroPattern[elem.name], elem.children))
  IN IF expanded.err # NoErr THEN expanded
     ELSE expandElement(variant, expanded.t)

\* elem.children.map(child => this.expandElement(child)), left to right; a throw
\* ends the whole expansion
expandChildren(variant, children, i, acc) ==
  IF i > Len(children) \/ acc.err # NoErr THEN acc
  ELSE LET c == expandElement(variant, children[i])
       IN expandChildren(variant, children, i + 1,
                         [t |-> Append(acc.t, c.t), err |-> c.err])

\* expandElement that passes over an undefined element instead of reading its
\* kind
expandElementSkipUndefined(variant, elem) ==
  IF elem = Undef THEN [t |-> Undef, err |-> NoErr]
  ELSE IF elem.kind = "call" /\ elem.name \in MacroNames
  THEN expandMacroCall(variant, elem)
  ELSE LET cs == expandChildren(variant, elem.children, 1, [t |-> <<>>, err |-> NoErr])
       IN [t |-> [elem EXCEPT !.children = cs.t], err |-> cs.err]

\* expandElement that leaves the children of a node that is no macro call alone
expandElementShallow(variant, elem) ==
  IF elem = Undef THEN [t |-> Undef, err |-> "TypeError"]
  ELSE IF elem.kind = "call" /\ elem.name \in MacroNames
  THEN expandMacroCall(variant, elem)
  ELSE [t |-> elem, err |-> NoErr]

expandElement(variant, elem) ==
  IF elem = Undef THEN [t |-> Undef, err |-> "TypeError"]
  ELSE IF elem.kind = "call" /\ elem.name \in MacroNames
  THEN expandMacroCall(variant, elem)
  ELSE LET cs == expandChildren(variant, elem.children, 1, [t |-> <<>>, err |-> NoErr])
       IN [t |-> [elem EXCEPT !.children = cs.t], err |-> cs.err]

\* expand(elements)
expand(variant, elements) ==
  expandChildren(variant, elements, 1, [t |-> <<>>, err |-> NoErr])

\* The object elem after expandElement(elem) returned.  A node that is no macro
\* call is returned itself with `elem.children = elem.children.map(...)`
\* assigned, so it stands as its own expansion.  A macro call node is not
\* assigned to, but the arguments its pattern binds are placed in the expansion
\* by reference and expandElement then runs on them there (on the first child
\* of a lambda body where part_010 unwraps it); surplus arguments are not
\* reached.
RECURSIVE inputAfterExpand(_, _)
inputAfterExpand(variant, elem) ==
  IF ~(elem.kind = "call" /\ elem.name \in MacroNames)
  THEN expandElement(variant, elem).t
  ELSE LET bound == Len(MacroPattern[elem.name])
           unwrapped(i) == /\ variant # "builtins"
                           /\ MacroPattern[elem.name][i] = "body"
                           /\ elem.children[i].kind = "lambda"
                           /\ elem.children[i].children # <<>>
       IN [elem EXCEPT !.children =
             [i \in 1..Len(elem.children) |->
                IF i > bound THEN elem.children[i]
                ELSE IF unwrapped(i)
                THEN [elem.children[i] EXCEPT !.children[1] =
                        inputAfterExpand(variant, elem.children[i].children[1])]
                ELSE inputAfterExpand(variant, elem.children[i])]]

-----------------------------------------------------------------------------
(* Expander runs: new MacroExpander() with the built-in macros, then        *)
(* expand applied to an element list and again to what it returned.        *)

MaxExpands == 2

Variants == {"builtins", "part_010"}

VarX == Elem("var", "x", <<>>, <<>>)
PrintlnX == makeCall("println", <<VarX>>)
BlockOf(stmts) == Elem("block", NoName, <<>>, stmts)
LambdaOf(children) == Elem("lambda", NoName, <<>>, children)

\* the argument in a macro call's first position ("none": a call without
\* arguments)
FirstArgs == {"none", "var", "call", "inc", "traceDec", "when", "logUnder"}

FirstArg(a) ==
  CASE a = "var" -> VarX
    [] a = "call" -> makeCall("f", <<VarX>>)
    [] a = "inc" -> makeCall("inc", <<VarX>>)
    [] a = "traceDec" -> makeCall("trace", <<makeCall("dec", <<VarX>>)>>)
    [] a = "when" -> makeCall("when", <<VarX, LambdaOf(<<BlockOf(<<PrintlnX>>)>>)>>)
    [] a = "logUnder" -> makeCall("f", <<makeCall("log", <<VarX>>)>>)

\* the argument in a macro call's second position ("none": no such argument)
SecondArgs == {"none", "thunk", "thunkMacro", "param", "var", "lambdaExpr", "lambdaEmpty", "block"}

SecondArg(b) ==
  CASE b = "thunk" -> LambdaOf(<<BlockOf(<<PrintlnX>>)>>)
    [] b = "thunkMacro" -> LambdaOf(<<BlockOf(<<makeCall("debug", <<VarX>>)>>)>>)
    [] b = "param" -> LambdaOf(ParamElems(<<"p">>) \o <<BlockOf(<<PrintlnX>>)>>)
    [] b = "var" -> Elem("var", "g", <<>>, <<>>)
    [] b = "lambdaExpr" -> LambdaOf(<<VarX>>)
    [] b = "lambdaEmpty" -> LambdaOf(<<>>)
    [] b = "block" -> BlockOf(<<makeCall("assert", <<VarX>>)>>)

Wraps == {"top", "def", "arg"}

MCall(p) ==
  makeCall(p.macro,
           IF p.first = "none" THEN <<>>
           ELSE <<FirstArg(p.first)>> \o
                (IF p.second = "none" THEN <<>> ELSE <<SecondArg(p.second)>>))

MTree(p) ==
  CASE p.wrap = "top" -> <<MCall(p)>>
    [] p.wrap = "def" ->
         <<Elem("def", "main", <<>>, <<Elem("returns", NoName, <<Attr("type", "Int")>>, <<>>),
                                       BlockOf(<<MCall(p), VarX>>)>>)>>
    [] p.wrap = "arg" -> <<makeCall("println", <<MCall(p)>>), MCall(p)>>

MPrograms ==
  {p \in [macro : MacroNames, first : FirstArgs, second : SecondArgs, wrap : Wraps] :
     p.first = "none" => p.second = "none"}

MInit ==
  /\ mvariant \in Variants
  /\ mprog \in MPrograms
  /\ mhist = <<MTree(mprog)>>
  /\ merr = NoErr
  /\ minput = MTree(mprog)

\* expand applied to the tree the previous step ended with; minput follows the
\* calls that returned
Expand ==
  /\ merr = NoErr
  /\ Len(mhist) <= MaxExpands
  /\ \E r \in {expand(mvariant, mhist[Len(mhist)])} :
       /\ merr' = r.err
       /\ mhist' = IF r.err = NoErr THEN Append(mhist, r.t) ELSE mhist
       /\ minput' = IF r.err = NoErr
                    THEN [i \in 1..Len(minput) |-> inputAfterExpand(mvariant, minput[i])]
                    ELSE minput
  /\ UNCHANGED <<mvariant, mprog>>

-----------------------------------------------------------------------------
(* Normalizer runs: one call written `f(e1..en) { B }` (the parser sets    *)
(* blockArg) and written `f(e1..en, () -> { B })` (the parser appends a     *)
(* Lambda without parameters whose body is the Block), both normalized.    *)

MaxNormArgs == 2

\* CallExpr with a trailing block: parseCall sets blockArg
CCallBlock(f, args, b) == [CCall(f, args) EXCEPT !.blockArg = b]

NArgKinds == {"lit", "var", "callBlock"}

NArg(k) ==
  CASE k = "lit" -> CLit("Int", 1)
    [] k = "var" -> CVar("x")
    [] k = "callBlock" -> CCallBlock("g", <<CVar("y")>>, CBlock(<<CVar("y")>>))

NBlockKinds == {"empty", "expr", "ret", "nested"}

NBlock(k) ==
  CASE k = "empty" -> CBlock(<<>>)
    [] k = "expr" -> CBlock(<<CCall("println", <<CVar("x")>>)>>)
    [] k = "ret" -> CBlock(<<CLet("y", CLit("Int", 2)), CRet(CVar("y"))>>)
    [] k = "nested" -> CBlock(<<CCallBlock("h", <<CLit("Int", 1)>>, CBlock(<<CVar("x")>>))>>)

NArgLists == UNION {[1..n -> NArgKinds] : n \in 0..MaxNormArgs}

NPrograms == [callee : {"f", "when"}, args : NArgLists, block : NBlockKinds]

NArgs(p) == [i \in 1..Len(p.args) |-> NArg(p.args[i])]

NoElems == [sugar |-> Elem("none", NoName, <<>>, <<>>), plain |-> Elem("none", NoName, <<>>, <<>>)]

NInit ==
  /\ nprog \in NPrograms
  /\ npc = "ready"
  /\ nres = NoElems

\* normalize applied to each spelling of the call
Normalize ==
  /\ npc = "ready"
  /\ nres' = [sugar |-> normalizeNode(CCallBlock(nprog.callee, NArgs(nprog), NBlock(nprog.block))),
              plain |-> normalizeNode(CCall(nprog.callee,
                          Append(NArgs(nprog), CLambda(<<>>, NBlock(nprog.block)))))]
  /\ npc' = "done"
  /\ UNCHANGED nprog

-----------------------------------------------------------------------------
(* Tree transducer (transducer/transducer.ts, matcher.ts, generator.ts).   *)
(* transform hands out and assigns to objects of its input, so element     *)
(* objects live in a heap: a sequence of nodes whose children are heap     *)
(* indices.  An absent name is NoName, absent attrs / children / templates *)
(* are the empty sequence unless a flag says otherwise.  The repository    *)
(* holds two copies of the matcher, transducer/matcher.ts and part_007;    *)
(* which one a build loads is an input of the run.                         *)

Matchers == {"matcher", "part_007"}

\* the objects of the tree elem, allocated behind heap h: [h, id]
RECURSIVE Alloc(_, _), AllocAll(_, _, _)
Alloc(h, elem) ==
  Then(AllocAll(h, elem.children, <<>>), LAMBDA c :
    [h |-> Append(c.h, [kind |-> elem.kind, name |-> elem.name, attrs |-> elem.attrs,
                        children |-> c.ids]),
     id |-> Len(c.h) + 1])

AllocAll(h, elems, ids) ==
  IF elems = <<>> THEN [h |-> h, ids |-> ids]
  ELSE Then(Alloc(h, Head(elems)), LAMBDA a :
         AllocAll(a.h, Tail(elems), Append(ids, a.id)))

\* the tree that hangs under object id
RECURSIVE Deref(_, _)
Deref(h, id) ==
  Elem(h[id].kind, h[id].name, h[id].attrs,
       [i \in 1..Len(h[id].children) |-> Deref(h, h[id].children[i])])

\* Bindings: Map<string, Element | Element[] | string>
StrB(s) == [t |-> "string", v |-> s]
ElemB(id) == [t |-> "elem", v |-> id]
ListB(ids) == [t |-> "list", v |-> ids]
NoBindings == [n \in {} |-> StrB("")]
BindSet(b, name, value) ==
  [n \in (DOMAIN b) \cup {name} |-> IF n = name THEN value ELSE b[n]]

\* patterns (transducer/types Pattern, AttrPattern)
KindPattern(kind, nameVar, attrPatterns, hasChildPatterns, childPatterns) ==
  [type |-> "KindPattern", kind |-> kind, nameVar |-> nameVar, attrPatterns |-> attrPatterns,
   hasChildPatterns |-> hasChildPatterns, childPatterns |-> childPatterns]
VarPattern(varName) == [type |-> "VarPattern", varName |-> varName]
AnyPattern == [type |-> "AnyPattern"]
ListPattern(patterns, restVar) == [type |-> "ListPattern", patterns |-> patterns, restVar |-> restVar]
AttrPattern(key, valueVar, hasLiteral, literal) ==
  [key |-> key, valueVar |-> valueVar, hasLiteral |-> hasLiteral, literal |-> literal]

MR(ok, b, err) == [ok |-> ok, b |-> b, err |-> err]

\* element.attrs?.find(a => a.key === key): the index of the first, 0 if none
FindAttr(attrs, key) ==
  LET hits == {i \in 1..Len(attrs) : attrs[i].key = key}
  IN IF hits = {} THEN 0 ELSE CHOOSE i \in hits : \A j \in hits : i <= j

\* `if (attrPattern.literal)` is false for an absent literal and for ""
matchAttrPattern(attrPattern, node, b) ==
  LET ai == FindAttr(node.attrs, attrPattern.key)
  IN IF ai = 0 THEN MR(FALSE, b, NoErr)
     ELSE IF attrPattern.hasLiteral /\ attrPattern.literal # ""
     THEN MR(node.attrs[ai].value = attrPattern.literal, b, NoErr)
     ELSE IF attrPattern.valueVar # ""
     THEN MR(TRUE, BindSet(b, attrPattern.valueVar, StrB(node.attrs[ai].value)), NoErr)
     ELSE MR(TRUE, b, NoErr)

RECURSIVE matchAttrs(_, _, _, _)
matchAttrs(attrPatterns, i, node, acc) ==
  IF i > Len(attrPatterns) \/ ~acc.ok THEN acc
  ELSE matchAttrs(attrPatterns, i + 1, node, matchAttrPattern(attrPatterns[i], node, acc.b))

\* PatternMatcher.matchPattern (the expander has a matchPattern of its own)
RECURSIVE PatternMatcher_matchPattern(_, _, _, _, _), matchPositions(_, _, _, _, _, _, _)

\* matchPattern on patterns[i..n] against children[i..n], stopping at the first
\* position that fails
matchPositions(matcher, h, patterns, children, i, n, acc) ==
  IF i > n \/ ~acc.ok \/ acc.err # NoErr THEN acc
  ELSE Then(PatternMatcher_matchPattern(matcher, h, patterns[i], children[i], acc.b), LAMBDA r :
         matchPositions(matcher, h, patterns, children, i + 1, n, r))

\* the child part of matchKindPattern in transducer/matcher.ts: equal arity,
\* every position matched by matchPattern
matchChildrenExact(matcher, h, cps, children, b) ==
  IF Len(children) # Len(cps) THEN MR(FALSE, b, NoErr)
  ELSE matchPositions(matcher, h, cps, children, 1, Len(cps), MR(TRUE, b, NoErr))

\* the child part of matchKindPattern in part_007: a last ListPattern with a
\* restVar takes the children the fixed patterns leave; reading .type of the
\* last pattern of an empty childPatterns array is a TypeError
matchChildrenRest(matcher, h, cps, children, b) ==
  IF cps = <<>> THEN MR(FALSE, b, "TypeError")
  ELSE LET lastPattern == cps[Len(cps)]
           fixed == Len(cps) - 1
       IN IF lastPattern.type = "ListPattern" /\ lastPattern.restVar # ""
          THEN IF Len(children) < fixed THEN MR(FALSE, b, NoErr)
               ELSE Then(matchPositions(matcher, h, cps, children, 1, fixed, MR(TRUE, b, NoErr)),
                         LAMBDA r :
                           IF ~r.ok \/ r.err # NoErr THEN r
                           ELSE MR(TRUE,
                                   BindSet(r.b, lastPattern.restVar,
                                           ListB(SubSeq(children, fixed + 1, Len(children)))),
                                   NoErr))
          ELSE matchChildrenExact(matcher, h, cps, children, b)

matchKindPattern(matcher, h, pattern, id, b) ==
  LET node == h[id]
  IN IF node.kind # pattern.kind THEN MR(FALSE, b, NoErr)
     ELSE IF pattern.nameVar # "" /\ node.name = NoName THEN MR(FALSE, b, NoErr)
     ELSE LET b1 == IF pattern.nameVar # ""
                    THEN BindSet(b, pattern.nameVar, StrB(node.name)) ELSE b
          IN Then(matchAttrs(pattern.attrPatterns, 1, node, MR(TRUE, b1, NoErr)), LAMBDA a :
               IF ~a.ok THEN a
               ELSE IF ~pattern.hasChildPatterns THEN a
               ELSE IF matcher = "matcher"
                    THEN matchChildrenExact(matcher, h, pattern.childPatterns, node.children, a.b)
               ELSE matchChildrenRest(matcher, h, pattern.childPatterns, node.children, a.b))

PatternMatcher_matchPattern(matcher, h, pattern, id, b) ==
  CASE pattern.type = "KindPattern" -> matchKindPattern(matcher, h, pattern, id, b)
    [] pattern.type = "VarPattern" -> MR(TRUE, BindSet(b, pattern.varName, ElemB(id)), NoErr)
    [] pattern.type = "AnyPattern" -> MR(TRUE, b, NoErr)
    [] pattern.type = "ListPattern" -> MR(FALSE, b, NoErr)
    [] OTHER -> MR(FALSE, b, NoErr)

\* match(pattern, element): the bindings of a match, ok = FALSE for null
match(matcher, h, pattern, id) == PatternMatcher_matchPattern(matcher, h, pattern, id, NoBindings)

\* templates (transducer/types Template, AttrTemplate, TemplateExpr)
NoExpr == [type |-> "None"]
VarExpr(varName) == [type |-> "Var", varName |-> varName]
LiteralExpr(value) == [type |-> "Literal", value |-> value]
ConcatExpr(parts) == [type |-> "Concat", parts |-> parts]
NodeTemplate(kind, name, attrs, children) ==
  [type |-> "NodeTemplate", kind |-> kind, name |-> name, attrs |-> attrs, children |-> children]
VarTemplate(varName) == [type |-> "VarTemplate", varName |-> varName]
LiteralTemplate(value) == [type |-> "LiteralTemplate", value |-> value]
\* hasTemplates is FALSE for an object of type ListTemplate without a
\* `templates` field
ListTemplate(hasTemplates, templates) ==
  [type |-> "ListTemplate", hasTemplates |-> hasTemplates, templates |-> templates]

\* String(value) of a bound value: a string is itself, an object prints as
\* [object Object], an array joins its elements with commas
RECURSIVE JoinObjects(_)
JoinObjects(n) ==
  IF n = 0 THEN "" ELSE IF n = 1 THEN "[object Object]"
  ELSE "[object Object]," \o JoinObjects(n - 1)

StringOf(value) ==
  CASE value.t = "string" -> value.v
    [] value.t = "elem" -> "[object Object]"
    [] value.t = "list" -> JoinObjects(Len(value.v))

RECURSIVE evalExpr(_, _), evalParts(_, _, _, _)
evalExpr(expr, b) ==
  CASE expr.type = "Var" ->
         IF expr.varName \notin DOMAIN b THEN [s |-> "", err |-> "Unbound variable"]
         ELSE [s |-> StringOf(b[expr.varName]), err |-> NoErr]
    [] expr.type = "Literal" -> [s |-> expr.value, err |-> NoErr]
    [] expr.type = "Concat" -> evalParts(expr.parts, 1, b, [s |-> "", err |-> NoErr])
    [] OTHER -> [s |-> "", err |-> "Unknown expression type"]

evalParts(parts, i, b, acc) ==
  IF i > Len(parts) \/ acc.err # NoErr THEN acc
  ELSE Then(evalExpr(parts[i], b), LAMBDA r :
         evalParts(parts, i + 1, b, [s |-> acc.s \o r.s, err |-> r.err]))

\* attrs.map(attrTemplate => ({key, value: evalExpr(value)}))
RECURSIVE generateAttrs(_, _, _, _)
generateAttrs(attrs, i, b, acc) ==
  IF i > Len(attrs) \/ acc.err # NoErr THEN acc
  ELSE Then(evalExpr(attrs[i].value, b), LAMBDA r :
         generateAttrs(attrs, i + 1, b,
                       [attrs |-> Append(acc.attrs, Attr(attrs[i].key, r.s)), err |-> r.err]))

\* a result of generate: the heap, the value (an element or a list) and the throw
GR(h, val, err) == [h |-> h, val |-> val, err |-> err]

NewNode(h, kind, name, attrs, children) ==
  GR(Append(h, [kind |-> kind, name |-> name, attrs |-> attrs, children |-> children]),
     ElemB(Len(h) + 1), NoErr)

StringLiteralNode(h, value) ==
  NewNode(h, "literal", NoName, <<Attr("type", "String"), Attr("value", value)>>, <<>>)

RECURSIVE generate(_, _, _), generateEach(_, _, _, _)

\* the loop of generateNode and of generateList: every template generated in
\* order, a list result spread into the array
generateEach(templates, i, b, acc) ==
  IF i > Len(templates) \/ acc.err # NoErr THEN acc
  ELSE Then(generate(acc.h, templates[i], b), LAMBDA r :
         generateEach(templates, i + 1, b,
                      GR(r.h,
                         ListB(acc.val.v \o (IF r.val.t = "list" THEN r.val.v ELSE <<r.val.v>>)),
                         r.err)))

generateNode(h, template, b) ==
  Then(IF template.name.type # "None" THEN evalExpr(template.name, b) ELSE [s |-> NoName, err |-> NoErr],
       LAMBDA n :
  IF n.err # NoErr THEN GR(h, ListB(<<>>), n.err)
  ELSE Then(generateAttrs(template.attrs, 1, b, [attrs |-> <<>>, err |-> NoErr]), LAMBDA a :
  IF a.err # NoErr THEN GR(h, ListB(<<>>), a.err)
  ELSE Then(generateEach(template.children, 1, b, GR(h, ListB(<<>>), NoErr)), LAMBDA c :
  IF c.err # NoErr THEN c
  ELSE NewNode(c.h, template.kind, n.s, a.attrs, c.val.v))))

generateVar(h, template, b) ==
  IF template.varName \notin DOMAIN b THEN GR(h, ListB(<<>>), "Unbound variable")
  ELSE LET value == b[template.varName]
       IN IF value.t = "string" THEN StringLiteralNode(h, value.v)
          ELSE GR(h, value, NoErr)

generateLiteral(h, template) == StringLiteralNode(h, template.value)

\* `for (const t of template.templates)` over an absent templates field is a
\* TypeError
generateList(h, template, b) ==
  IF ~template.hasTemplates THEN GR(h, ListB(<<>>), "TypeError")
  ELSE generateEach(template.templates, 1, b, GR(h, ListB(<<>>), NoErr))

generate(h, template, b) ==
  CASE template.type = "NodeTemplate" -> generateNode(h, template, b)
    [] template.type = "VarTemplate" -> generateVar(h, template, b)
    [] template.type = "LiteralTemplate" -> generateLiteral(h, template)
    [] template.type = "ListTemplate" -> generateList(h, template, b)
    [] OTHER -> GR(h, ListB(<<>>), "Unknown template type")

\* rule.condition is a JavaScript closure over the bindings; the closures the
\* sources build are written as terms: none (no condition), opIs (matchBinaryOp
\* / matchUnaryOp: bindings.get('op') === op), isLiteral (helpers.isLiteral of a
\* bound value), and / or (the && of TransformRuleBuilder.when, the || of
\* mul_zero), never (a closure returning false)
NoCondition == [c |-> "none"]
OpIs(op) == [c |-> "opIs", op |-> op]
IsLiteralCond(varName, value) == [c |-> "isLiteral", varName |-> varName, value |-> value]
AndCond(l, r) == [c |-> "and", l |-> l, r |-> r]
OrCond(l, r) == [c |-> "or", l |-> l, r |-> r]
NeverCond == [c |-> "never"]

\* helpers.isLiteral(elem, value) on a value of the bindings
isLiteral(h, b, varName, value) ==
  IF varName \notin DOMAIN b THEN [v |-> FALSE, err |-> "TypeError"]
  ELSE LET elem == b[varName]
       IN IF elem.t # "elem" THEN [v |-> FALSE, err |-> NoErr]
          ELSE IF h[elem.v].kind # "literal" THEN [v |-> FALSE, err |-> NoErr]
          ELSE LET ai == FindAttr(h[elem.v].attrs, "value")
               IN [v |-> ai # 0 /\ h[elem.v].attrs[ai].value = value, err |-> NoErr]

RECURSIVE evalCondition(_, _, _)
evalCondition(cond, h, b) ==
  CASE cond.c = "opIs" ->
         [v |-> "op" \in DOMAIN b /\ b["op"].t = "string" /\ b["op"].v = cond.op,
          err |-> NoErr]
    [] cond.c = "isLiteral" -> isLiteral(h, b, cond.varName, cond.value)
    [] cond.c = "and" ->
         Then(evalCondition(cond.l, h, b), LAMBDA l :
           IF l.err # NoErr \/ ~l.v THEN l ELSE evalCondition(cond.r, h, b))
    [] cond.c = "or" ->
         Then(evalCondition(cond.l, h, b), LAMBDA l :
           IF l.err # NoErr \/ l.v THEN l ELSE evalCondition(cond.r, h, b))
    [] cond.c = "never" -> [v |-> FALSE, err |-> NoErr]

Rule(name, pattern, template, condition) ==
  [name |-> name, pattern |-> pattern, template |-> template, condition |-> condition]

\* a result of transform: the heap, the returned element and the throw
XR(h, id, err) == [h |-> h, id |-> id, err |-> err]

RECURSIVE transform(_, _, _, _), transformChildren(_, _, _, _, _), tryRules(_, _, _, _, _)

\* children.map(child => this.transform(child)), left to right
transformChildren(matcher, rules, children, i, acc) ==
  IF i > Len(children) \/ acc.err # NoErr THEN acc
  ELSE Then(transform(matcher, rules, acc.h, children[i]), LAMBDA r :
         transformChildren(matcher, rules, children, i + 1,
                           [h |-> r.h, ids |-> Append(acc.ids, r.id), err |-> r.err]))

\* transformDefault that copies the element without its children
transformDefaultNoChildren(matcher, rules, h, id) ==
  IF h[id].children = <<>> THEN XR(h, id, NoErr)
  ELSE XR(Append(h, [h[id] EXCEPT !.children = <<>>]), Len(h) + 1, NoErr)

\* no rule matched: a childless element is returned itself, any other is copied
\* with its children transformed
transformDefault(matcher, rules, h, id) ==
  IF h[id].children = <<>> THEN XR(h, id, NoErr)
  ELSE Then(transformChildren(matcher, rules, h[id].children, 1,
                              [h |-> h, ids |-> <<>>, err |-> NoErr]), LAMBDA c :
         IF c.err # NoErr THEN XR(c.h, id, c.err)
         ELSE XR(Append(c.h, [h[id] EXCEPT !.children = c.ids]), Len(c.h) + 1, NoErr))

\* applyRule that hands back what generate returned without transforming its
\* children
applyRuleShallow(matcher, rules, rule, h, b) ==
  Then(generate(h, rule.template, b), LAMBDA g :
    IF g.err # NoErr THEN XR(g.h, 0, g.err)
    ELSE IF g.val.t = "list" THEN XR(g.h, 0, "Rule template must produce a single element, not a list")
    ELSE XR(g.h, g.val.v, NoErr))

\* the rule fired: generate, then `result.children = result.children.map(...)`
\* assigned on the object generate returned
applyRule(matcher, rules, rule, h, b) ==
  Then(generate(h, rule.template, b), LAMBDA g :
    IF g.err # NoErr THEN XR(g.h, 0, g.err)
    ELSE IF g.val.t = "list" THEN XR(g.h, 0, "Rule template must produce a single element, not a list")
    ELSE LET result == g.val.v
         IN IF g.h[result].children = <<>> THEN XR(g.h, result, NoErr)
            ELSE Then(transformChildren(matcher, rules, g.h[result].children, 1,
                                        [h |-> g.h, ids |-> <<>>, err |-> NoErr]), LAMBDA c :
                   IF c.err # NoErr THEN XR(c.h, 0, c.err)
                   ELSE XR([c.h EXCEPT ![result].children = c.ids], result, NoErr)))

\* the rule loop of transform from rule i, where a matching rule whose condition
\* is false ends the loop
tryRulesFirstMatchOnly(matcher, rules, i, h, id) ==
  IF i > Len(rules) THEN transformDefault(matcher, rules, h, id)
  ELSE Then(match(matcher, h, rules[i].pattern, id), LAMBDA m :
         IF m.err # NoErr THEN XR(h, 0, m.err)
         ELSE IF ~m.ok THEN tryRules(matcher, rules, i + 1, h, id)
         ELSE IF rules[i].condition.c = "none"
         THEN applyRule(matcher, rules, rules[i], h, m.b)
         ELSE Then(evalCondition(rules[i].condition, h, m.b), LAMBDA c :
                IF c.err # NoErr THEN XR(h, 0, c.err)
                ELSE IF ~c.v THEN transformDefault(matcher, rules, h, id)
                ELSE applyRule(matcher, rules, rules[i], h, m.b)))

\* the rule loop of transform from rule i: the first rule whose pattern matches
\* and whose condition, if any, holds is applied
tryRules(matcher, rules, i, h, id) ==
  IF i > Len(rules) THEN transformDefault(matcher, rules, h, id)
  ELSE Then(match(matcher, h, rules[i].pattern, id), LAMBDA m :
         IF m.err # NoErr THEN XR(h, 0, m.err)
         ELSE IF ~m.ok THEN tryRules(matcher, rules, i + 1, h, id)
         ELSE IF rules[i].condition.c = "none"
         THEN applyRule(matcher, rules, rules[i], h, m.b)
         ELSE Then(evalCondition(rules[i].condition, h, m.b), LAMBDA c :
                IF c.err # NoErr THEN XR(h, 0, c.err)
                ELSE IF ~c.v THEN tryRules(matcher, rules, i + 1, h, id)
                ELSE applyRule(matcher, rules, rules[i], h, m.b)))

transform(matcher, rules, h, id) == tryRules(matcher, rules, 1, h, id)

\* TransformRuleBuilder (transducer/helpers.ts).  matchKind: captureNameAs and
\* captureChildrenAs are "" when the option is absent; the ListPattern it builds
\* has a restVar and no patterns; the attrs option (a list of [key, value]) is
\* not read
matchKind(kind, captureNameAs, captureChildrenAs, attrs) ==
  KindPattern(kind, captureNameAs, <<>>, captureChildrenAs # "",
              IF captureChildrenAs # "" THEN <<ListPattern(<<>>, captureChildrenAs)>> ELSE <<>>)

\* matchBinaryOp(op): the pattern; its condition is OpIs(op)
matchBinaryOp(leftVar, rightVar) ==
  KindPattern("call", "op", <<>>, TRUE, <<VarPattern(leftVar), VarPattern(rightVar)>>)

\* generateNode(kind, {name, children}): nameVar is the v of name: {var: v},
\* "" when the option is absent; a child option is [var |-> v] or [list |-> v];
\* the object built for {list: v} has type ListTemplate, a listVar and no
\* templates
TransformRuleBuilder_generateNode(kind, nameVar, children) ==
  NodeTemplate(kind,
               IF nameVar = "" THEN NoExpr ELSE VarExpr(nameVar),
               <<>>,
               [i \in 1..Len(children) |->
                  IF "var" \in DOMAIN children[i] THEN VarTemplate(children[i].var)
                  ELSE ListTemplate(FALSE, <<>>)])

\* new TransformRuleBuilder().setName(n).matchBinaryOp(op).when(c).<generate>.build()
BinaryOpRule(name, op, whenCond, template) ==
  Rule(name, matchBinaryOp("left", "right"), template, AndCond(OpIs(op), whenCond))

\* OptimizationRules.arithmeticIdentity()
arithmeticIdentity ==
  << BinaryOpRule("add_zero_right", "+", IsLiteralCond("right", "0"), VarTemplate("left")),
     BinaryOpRule("add_zero_left", "+", IsLiteralCond("left", "0"), VarTemplate("right")),
     BinaryOpRule("mul_one_right", "*", IsLiteralCond("right", "1"), VarTemplate("left")),
     BinaryOpRule("mul_one_left", "*", IsLiteralCond("left", "1"), VarTemplate("right")),
     BinaryOpRule("mul_zero", "*",
                  OrCond(IsLiteralCond("left", "0"), IsLiteralCond("right", "0")),
                  LiteralTemplate("0")) >>

\* helpers.makeLiteral(type, value)
makeLiteral(type, value) ==
  Elem("literal", NoName, <<Attr("type", type), Attr("value", value)>>, <<>>)

-----------------------------------------------------------------------------
(* Transducer runs.  A run is one transform call of a Transducer built     *)
(* from a rule list and handed a tree; a fixpoint run is the loop of       *)
(* FixpointTransducer.transform, one transform call per step.              *)

MaxChain == 3          \* nesting of the arithmetic input trees
MaxDefParams == 2      \* params of the input def
MaxChildren == 3       \* children of the input node of a child-pattern run
MaxFixed == 2          \* fixed child-patterns of a child-pattern run
MaxRules == 3          \* rules of a rule-order run

\* FixpointTransducer's constructor default: maxIterations: number = 10
DefaultMaxIterations == 10

XVar(name) == Elem("var", name, <<>>, <<>>)
BinCall(op, l, r) == Elem("call", op, <<>>, <<l, r>>)
XNames == <<"x", "y", "z", "w", "v">>

\* arithmetic trees: the variable x, or + / * applied to a tree of one nesting
\* less and a literal 0 / 1, on either side
ArithLiterals == {makeLiteral("Int", "0"), makeLiteral("Int", "1")}
RECURSIVE ArithTrees(_)
ArithTrees(d) ==
  IF d = 0 THEN {XVar("x")}
  ELSE LET s == ArithTrees(d - 1)
       IN s \cup {BinCall(op, l, r) : op \in {"+", "*"}, l \in s, r \in ArithLiterals}
            \cup {BinCall(op, l, r) : op \in {"+", "*"}, l \in ArithLiterals, r \in s}

\* ((x + 0) * 1) + 0
NestedIdentity ==
  BinCall("+", BinCall("*", BinCall("+", XVar("x"), makeLiteral("Int", "0")),
                       makeLiteral("Int", "1")),
          makeLiteral("Int", "0"))

\* def name(x, y, ...) with n params and nothing else
DefTree(name, n) ==
  Elem("def", name, <<>>, [i \in 1..n |-> Elem("param", XNames[i], <<>>, <<>>)])
DefTrees(name) == {DefTree(name, n) : n \in 0..MaxDefParams}

\* a call node whose children are variables and literals, each naming its position
ChildKinds(n) == [1..n -> {"var", "literal"}]
ChildTree(kinds) ==
  Elem("call", "f", <<>>,
       [i \in 1..Len(kinds) |->
          IF kinds[i] = "var" THEN XVar(XNames[i]) ELSE makeLiteral("String", XNames[i])])
ChildTrees == {ChildTree(kinds) : kinds \in UNION {ChildKinds(n) : n \in 0..MaxChildren}}

\* literal nodes with no attrs, a type, or a type and a value
AttrKeys == {"type", "value", "unit"}
AttrLiterals == {"", "Int", "0"}
AttrTrees ==
  {Elem("literal", NoName, <<>>, <<>>)}
    \cup {Elem("literal", NoName, <<Attr("type", t)>>, <<>>) : t \in {"Int", "String"}}
    \cup {makeLiteral(t, v) : t \in {"Int", "String"}, v \in AttrLiterals}

OrderTags == {"plus", "times", "any", "never", "unary"}
OrderLists == UNION {[1..n -> OrderTags] : n \in 0..MaxRules}
OrderTrees ==
  {BinCall(op, XVar("x"), makeLiteral("Int", "0")) : op \in {"+", "*", "-"}} \cup {XVar("x")}

XProg(fam, matcher, tree, k, rest, key, literal, order, maxIterations) ==
  [fam |-> fam, matcher |-> matcher, tree |-> tree, k |-> k, rest |-> rest, key |-> key,
   literal |-> literal, order |-> order, maxIterations |-> maxIterations]

XPlain(fam, matcher, tree) == XProg(fam, matcher, tree, 0, FALSE, "", "", <<>>, 0)

XPrograms ==
  {XPlain("empty", m, t) :
     m \in Matchers,
     t \in ArithTrees(MaxChain) \cup DefTrees("add") \cup ChildTrees \cup AttrTrees}
    \cup {XPlain("rename", m, t) : m \in Matchers, t \in DefTrees("myFunction")}
    \cup {XPlain("dsl", m, t) : m \in Matchers, t \in DefTrees("add")}
    \cup {XPlain("arith", m, t) : m \in Matchers, t \in ArithTrees(MaxChain)}
    \cup {XProg("rest", m, t, k, rest, "", "", <<>>, 0) :
            m \in Matchers, t \in ChildTrees, k \in 0..MaxFixed, rest \in BOOLEAN}
    \cup {XProg("attr", m, t, 0, FALSE, key, literal, <<>>, 0) :
            m \in Matchers, t \in AttrTrees, key \in AttrKeys, literal \in AttrLiterals}
    \cup {XProg("order", m, t, 0, FALSE, "", "", order, 0) :
            m \in Matchers, t \in OrderTrees, order \in OrderLists}
    \cup {XProg("dslattr", m, t, 0, FALSE, key, literal, <<>>, 0) :
            m \in Matchers, t \in AttrTrees, key \in AttrKeys, literal \in AttrLiterals}

FixPrograms ==
  {XProg("arith", m, t, 0, FALSE, "", "", <<>>, maxIterations) :
     m \in Matchers, t \in ArithTrees(MaxChain), maxIterations \in {1, DefaultMaxIterations}}

\* the two rename rules of the overview's first example: KindPattern with a
\* nameVar, NodeTemplate with a Var name, no child patterns or templates
RenameRules ==
  << Rule("def_to_function", KindPattern("def", "fname", <<>>, FALSE, <<>>),
          NodeTemplate("function", VarExpr("fname"), <<>>, <<>>), NoCondition),
     Rule("param_to_argument", KindPattern("param", "pname", <<>>, FALSE, <<>>),
          NodeTemplate("argument", VarExpr("pname"), <<>>, <<>>), NoCondition) >>

\* the same example through TransformRuleBuilder, the children captured as a
\* list and emitted by a {list: ...} child option
DslRules ==
  << Rule("def_to_function", matchKind("def", "fname", "kids", <<>>),
          TransformRuleBuilder_generateNode("function", "fname", <<[list |-> "kids"]>>),
          NoCondition),
     Rule("param_to_argument", matchKind("param", "pname", "", <<>>),
          TransformRuleBuilder_generateNode("argument", "pname", <<>>),
          NoCondition) >>

\* a call pattern of k fixed `var` child-patterns, closed by a rest-capture r
\* or not; the node generated is `hit` over the rest
RestRule(k, rest) ==
  Rule("rest",
       KindPattern("call", "", <<>>, TRUE,
                   [i \in 1..k |-> KindPattern("var", "", <<>>, FALSE, <<>>)]
                     \o (IF rest THEN <<ListPattern(<<>>, "r")>> ELSE <<>>)),
       NodeTemplate("hit", NoExpr, <<>>, IF rest THEN <<VarTemplate("r")>> ELSE <<>>),
       NoCondition)

\* a literal pattern with one attribute pattern (key, literal)
AttrRule(key, literal) ==
  Rule("attr",
       KindPattern("literal", "", <<AttrPattern(key, "", TRUE, literal)>>, FALSE, <<>>),
       NodeTemplate("hit", NoExpr, <<>>, <<>>),
       NoCondition)

\* the same rule through TransformRuleBuilder: matchKind("literal", {attrs:
\* [{key, value}]}) and generateNode("hit")
DslAttrRule(key, value) ==
  Rule("attr",
       matchKind("literal", "", "", <<[key |-> key, value |-> value]>>),
       TransformRuleBuilder_generateNode("hit", "", <<>>),
       NoCondition)

\* rules that generate a childless node whose kind is the rule's tag: a binary
\* call with op + / with op * / with any op / never, and a unary call
OrderRule(tag) ==
  Rule(tag,
       IF tag = "unary" THEN KindPattern("call", "op", <<>>, TRUE, <<VarPattern("operand")>>)
       ELSE matchBinaryOp("left", "right"),
       NodeTemplate(tag, VarExpr("op"), <<>>, <<>>),
       CASE tag = "plus" -> OpIs("+")
         [] tag = "times" -> OpIs("*")
         [] tag = "never" -> NeverCond
         [] OTHER -> NoCondition)

\* the rule list new Transducer({rules}) is built from
RulesOf(p) ==
  CASE p.fam = "empty" -> <<>>
    [] p.fam = "rename" -> RenameRules
    [] p.fam = "dsl" -> DslRules
    [] p.fam = "arith" -> arithmeticIdentity
    [] p.fam = "rest" -> <<RestRule(p.k, p.rest)>>
    [] p.fam = "attr" -> <<AttrRule(p.key, p.literal)>>
    [] p.fam = "dslattr" -> <<DslAttrRule(p.key, p.literal)>>
    [] p.fam = "order" -> [i \in 1..Len(p.order) |-> OrderRule(p.order[i])]

\* the input tree allocated, nothing transformed yet
XStart(pc) ==
  /\ xheap = Alloc(<<>>, xprog.tree).h
  /\ xin = Len(xheap)
  /\ xout = xin
  /\ xerr = NoErr
  /\ xiter = 0
  /\ xpc = pc

XInit == xprog \in XPrograms /\ XStart("ready")

FixInit == xprog \in FixPrograms /\ XStart("loop")

\* transducer.transform(xin)
Transform ==
  /\ xpc = "ready"
  /\ \E r \in {transform(xprog.matcher, RulesOf(xprog), xheap, xin)} :
       /\ xheap' = r.h
       /\ xout' = r.id
       /\ xerr' = r.err
  /\ xiter' = 1
  /\ xpc' = "done"
  /\ UNCHANGED <<xprog, xin>>

\* one round of the loop of FixpointTransducer.transform: xout is `current`,
\* xiter counts the transform calls, each of which but the last changed the tree
FixpointStep ==
  /\ xpc = "loop"
  /\ \E r \in {transform(xprog.matcher, RulesOf(xprog), xheap, xout)} :
       /\ xheap' = r.h
       /\ xerr' = r.err
       /\ IF r.err # NoErr THEN xout' = xout /\ xpc' = "done"
          ELSE IF Deref(r.h, r.id) = Deref(r.h, xout) THEN xout' = xout /\ xpc' = "done"
          ELSE /\ xout' = r.id
               /\ xpc' = IF xiter + 1 < xprog.maxIterations THEN "loop" ELSE "done"
  /\ xiter' = xiter + 1
  /\ UNCHANGED <<xprog, xin>>

-----------------------------------------------------------------------------
(* TreeP (index: class TreeP).  The constructor tokenizes the source and   *)
(* builds one Parser, Normalizer, MacroExpander, TypeInference and         *)
(* Interpreter; run and getEAST use these same objects on every call.      *)
(* The parser's token list is held as the top-level statements it parses   *)
(* to, and Parser.current as the number of them consumed.                  *)

\* Parser.parse(): while (!isAtEnd()) push(parseTopLevel()); it starts at
\* this.current, which is 0 only after construction
Parser_parse(statements, current) ==
  [cst |-> SubSeq(statements, current + 1, Len(statements)),
   current |-> Len(statements)]

\* getEAST(): parse, normalize, expand
getEAST(prog, current) ==
  Then(Parser_parse(ProgCST(prog), current), LAMBDA parsed :
  Then(expand("builtins", normalizeAll(parsed.cst)), LAMBDA expanded :
    [current |-> parsed.current,
     east |-> IF expanded.err = NoErr THEN expanded.t ELSE <<>>,
     err |-> expanded.err]))

\* what a call left behind in the TypeInference / Interpreter object: the
\* thrown Error and the printed lines are not fields of the object
AfterCall(st) == [st EXCEPT !.err = NoErr]
AfterExecute(st) == [st EXCEPT !.err = NoErr, !.out = <<>>]

\* run(): parse, normalize, expand, infer, execute
run(prog, current, types, interp) ==
  Then(getEAST(prog, current), LAMBDA e :
    IF e.err # NoErr
    THEN [current |-> e.current, types |-> types, interp |-> interp,
          value |-> UnitV, out |-> <<>>, err |-> e.err]
    ELSE Then(infer(e.east, types), LAMBDA t :
      IF t.st.err # NoErr
      THEN [current |-> e.current, types |-> AfterCall(t.st), interp |-> interp,
            value |-> UnitV, out |-> <<>>, err |-> t.st.err]
      ELSE Then(execute(e.east, interp), LAMBDA r :
        [current |-> e.current, types |-> AfterCall(t.st), interp |-> AfterExecute(r.st),
         value |-> r.v, out |-> r.st.out, err |-> r.st.err])))

-----------------------------------------------------------------------------
(* TreeP runs.  A source is chosen at Init and one TreeP is constructed    *)
(* from it; Run and GetEAST are calls of its two methods, in any order.    *)

MaxCalls == 2

PPrograms ==
  {p \in IPrograms : p.fam \in {"ret", "fact"}}
  \cup [fam : {"incdec"}, style : {"top"}, cond : {"true"}, hasElse : {FALSE}, n : 0..MaxArg,
        shape : {"inc", "dec"}, a : {0}, b : {0}]
  \cup [fam : {"empty"}, style : {"top"}, cond : {"true"}, hasElse : {FALSE}, n : {0},
        shape : {"if"}, a : {0}, b : {0}]

PInit ==
  /\ pprog \in PPrograms
  /\ pcurrent = 0
  /\ ptypes = TInit
  /\ pinterp = InterpInit
  /\ plog = <<>>

Run ==
  /\ Len(plog) < MaxCalls
  /\ \E r \in {run(pprog, pcurrent, ptypes, pinterp)} :
       /\ pcurrent' = r.current
       /\ ptypes' = r.types
       /\ pinterp' = r.interp
       /\ plog' = Append(plog, [op |-> "run", value |-> r.value, out |-> r.out,
                                err |-> r.err, east |-> <<>>])
  /\ UNCHANGED pprog

GetEAST ==
  /\ Len(plog) < MaxCalls
  /\ \E e \in {getEAST(pprog, pcurrent)} :
       /\ pcurrent' = e.current
       /\ plog' = Append(plog, [op |-> "getEAST", value |-> UnitV, out |-> <<>>,
                                err |-> e.err, east |-> e.east])
  /\ UNCHANGED <<pprog, ptypes, pinterp>>

-----------------------------------------------------------------------------
(* Lexer (lexer/lexer: class Lexer).  The input is a sequence of           *)
(* characters and position is the 0-based index of the source; a lexer     *)
(* state is [position, tokens, err].  A token is [type, value, start, end]:*)
(* the line and column of its span are left out.                           *)

LDigits == {"0", "1", "2", "3", "4", "5", "6", "7", "8", "9"}
LLetters ==
    {"a", "b", "c", "d", "e", "f", "g", "h", "i", "j", "k", "l", "m", "n",
     "o", "p", "q", "r", "s", "t", "u", "v", "w", "x", "y", "z", "A", "B",
     "C", "D", "E", "F", "G", "H", "I", "J", "K", "L", "M", "N", "O", "P",
     "Q", "R", "S", "T", "U", "V", "W", "X", "Y", "Z"}

KEYWORDS ==
  [k \in {"def", "let", "if", "else", "while", "for", "return", "macro", "pattern",
          "expand", "returns", "true", "false"} |->
     CASE k = "def" -> "DEF" [] k = "let" -> "LET" [] k = "if" -> "IF"
       [] k = "else" -> "ELSE" [] k = "while" -> "WHILE" [] k = "for" -> "FOR"
       [] k = "return" -> "RETURN" [] k = "macro" -> "MACRO" [] k = "pattern" -> "PATTERN"
       [] k = "expand" -> "EXPAND" [] k = "returns" -> "RETURNS" [] k = "true" -> "TRUE"
       [] k = "false" -> "FALSE"]

twoCharOps ==
  [o \in {"==", "!=", "<=", ">=", "&&", "||", "->"} |->
     CASE o = "==" -> "EQ" [] o = "!=" -> "NEQ" [] o = "<=" -> "LTE" [] o = ">=" -> "GTE"
       [] o = "&&" -> "AND" [] o = "||" -> "OR" [] o = "->" -> "ARROW"]

singleCharOps ==
  [o \in {"+", "-", "*", "/", "%", "<", ">", "!", "=", "(", ")", "{", "}", "[", "]",
          ",", ":", ";", ".", "$"} |->
     CASE o = "+" -> "PLUS" [] o = "-" -> "MINUS" [] o = "*" -> "STAR" [] o = "/" -> "SLASH"
       [] o = "%" -> "PERCENT" [] o = "<" -> "LT" [] o = ">" -> "GT" [] o = "!" -> "NOT"
       [] o = "=" -> "ASSIGN" [] o = "(" -> "LPAREN" [] o = ")" -> "RPAREN"
       [] o = "{" -> "LBRACE" [] o = "}" -> "RBRACE" [] o = "[" -> "LBRACKET"
       [] o = "]" -> "RBRACKET" [] o = "," -> "COMMA" [] o = ":" -> "COLON"
       [] o = ";" -> "SEMICOLON" [] o = "." -> "DOT" [] o = "$" -> "DOLLAR"]

\* this.input[this.position] || ''
peek(input, position) == IF position < Len(input) THEN input[position + 1] ELSE ""
peekNext(input, position) == peek(input, position + 1)

isDigit(char) == char \in LDigits
isAlpha(char) == char \in LLetters
isAlphaNumeric(char) == isAlpha(char) \/ isDigit(char)

\* input.substring(start, end), start <= end
RECURSIVE substring(_, _, _)
substring(input, start, end) ==
  IF start >= end \/ start >= Len(input) THEN ""
  ELSE input[start + 1] \o substring(input, start + 1, end)

Token(type, value, start, end) == [type |-> type, value |-> value, start |-> start, end |-> end]

\* each method returns the position it leaves; the read methods return
\* [token, position, err]
RECURSIVE skipWhitespace(_, _)
skipWhitespace(input, position) ==
  IF position < Len(input) /\ peek(input, position) \in {" ", "\t", "\r", "\n"}
  THEN skipWhitespace(input, position + 1)
  ELSE position

RECURSIVE skipLineComment(_, _)
skipLineComment(input, position) ==
  IF peek(input, position) # "\n" /\ position < Len(input)
  THEN skipLineComment(input, position + 1)
  ELSE position

RECURSIVE skipBlockCommentFrom(_, _)
skipBlockCommentFrom(input, position) ==
  IF position < Len(input) - 1
  THEN (IF peek(input, position) = "*" /\ peekNext(input, position) = "/"
        THEN position + 2
        ELSE skipBlockCommentFrom(input, position + 1))
  ELSE position

skipBlockComment(input, position) == skipBlockCommentFrom(input, position + 2)

Read(token, position) == [token |-> token, position |-> position, err |-> NoErr]

RECURSIVE WhileDigit(_, _)
WhileDigit(input, position) ==
  IF isDigit(peek(input, position)) THEN WhileDigit(input, position + 1) ELSE position

readNumber(input, start) ==
  LET position == WhileDigit(input, start)
  IN Read(Token("INT", substring(input, start, position), start, position), position)

\* the loop of readString: a backslash skips the character after it
RECURSIVE WhileInString(_, _)
WhileInString(input, position) ==
  IF peek(input, position) # "\"" /\ position < Len(input)
  THEN WhileInString(input, IF peek(input, position) = "\\" THEN position + 2 ELSE position + 1)
  ELSE position

readString(input, start) ==
  LET stringStart == start + 1
      position == WhileInString(input, stringStart)
  IN Read(Token("STRING", substring(input, stringStart, position), start, position + 1),
          position + 1)

RECURSIVE WhileIdent(_, _)
WhileIdent(input, position) ==
  IF isAlphaNumeric(peek(input, position)) \/ peek(input, position) = "_"
  THEN WhileIdent(input, position + 1)
  ELSE position

readIdentifier(input, start) ==
  LET position == WhileIdent(input, start)
      value == substring(input, start, position)
  IN Read(Token(IF value \in DOMAIN KEYWORDS THEN KEYWORDS[value] ELSE "IDENT",
                value, start, position), position)

readOperator(input, start) ==
  LET char == peek(input, start)
      twoChar == char \o peek(input, start + 1)
  IN IF twoChar \in DOMAIN twoCharOps
     THEN Read(Token(twoCharOps[twoChar], twoChar, start, start + 2), start + 2)
     ELSE IF char \in DOMAIN singleCharOps
     THEN Read(Token(singleCharOps[char], char, start, start + 1), start + 1)
     ELSE [token |-> Token("EOF", "", start, start + 1), position |-> start + 1,
           err |-> "Unexpected character"]

nextToken(input, start) ==
  LET char == peek(input, start)
  IN IF isDigit(char) THEN readNumber(input, start)
     ELSE IF char = "\"" THEN readString(input, start)
     ELSE IF isAlpha(char) \/ char = "_" THEN readIdentifier(input, start)
     ELSE readOperator(input, start)

\* the loop of tokenize from a position with the tokens pushed so far
RECURSIVE tokenizeFrom(_, _, _)
tokenizeFrom(input, position0, tokens) ==
  IF position0 >= Len(input) THEN [position |-> position0, tokens |-> tokens, err |-> NoErr]
  ELSE Then(skipWhitespace(input, position0), LAMBDA position :
    IF position >= Len(input) THEN [position |-> position, tokens |-> tokens, err |-> NoErr]
    ELSE IF peek(input, position) = "/" /\ peekNext(input, position) = "/"
    THEN tokenizeFrom(input, skipLineComment(input, position), tokens)
    ELSE IF peek(input, position) = "/" /\ peekNext(input, position) = "*"
    THEN tokenizeFrom(input, skipBlockComment(input, position), tokens)
    ELSE Then(nextToken(input, position), LAMBDA r :
      IF r.err # NoErr THEN [position |-> r.position, tokens |-> tokens, err |-> r.err]
      ELSE tokenizeFrom(input, r.position, Append(tokens, r.token))))

\* tokenize(): the loop, then the EOF token
tokenize(input) ==
  Then(tokenizeFrom(input, 0, <<>>), LAMBDA l :
    IF l.err # NoErr THEN [tokens |-> <<>>, err |-> l.err]
    ELSE [tokens |-> Append(l.tokens, Token("EOF", "", l.position, l.position)),
          err |-> NoErr])

-----------------------------------------------------------------------------
(* Lexer runs.  An input is chosen at Init; Tokenize runs tokenize on a    *)
(* Lexer constructed from it.                                              *)

MaxInput == 3
LChars == {"\"", "a", "1", " ", "\\", "/", "*", "\n", "=", "#"}
LInputs == UNION {[1..n -> LChars] : n \in 0..MaxInput}
NoTokens == [tokens |-> <<>>, err |-> NoErr]

LInit ==
  /\ linput \in LInputs
  /\ lpc = "ready"
  /\ lres = NoTokens

Tokenize ==
  /\ lpc = "ready"
  /\ \E r \in {tokenize(linput)} : lres' = r
  /\ lpc' = "done"
  /\ UNCHANGED linput

-----------------------------------------------------------------------------
(* Specifications: one per component, the other components idle.           *)

IIdle == iprog = (CHOOSE p \in IPrograms : TRUE) /\ ipc = "done" /\ ires = NoResult
TIdle == tprog = (CHOOSE p \in TPrograms : TRUE) /\ tpc = "done" /\ tres = NoTypes
UIdle == ust = TInit /\ ucall = NoCall

MIdle ==
  /\ mvariant = "builtins"
  /\ mprog = (CHOOSE p \in MPrograms : TRUE)
  /\ mhist = <<>>
  /\ merr = "idle"
  /\ minput = <<>>

NIdle == nprog = (CHOOSE p \in NPrograms : TRUE) /\ npc = "done" /\ nres = NoElems

XIdle ==
  /\ xprog = (CHOOSE p \in FixPrograms : TRUE)
  /\ xheap = <<>>
  /\ xin = 0
  /\ xout = 0
  /\ xerr = "idle"
  /\ xiter = 0
  /\ xpc = "done"

PIdle ==
  /\ pprog = (CHOOSE p \in PPrograms : TRUE)
  /\ pcurrent = 0
  /\ ptypes = TInit
  /\ pinterp = InterpInit
  /\ plog = <<>>

LIdle == linput = <<>> /\ lpc = "done" /\ lres = NoTokens

INext == Execute /\ UNCHANGED <<tvars, uvars, mvars, nvars, xvars, pvars, lvars>>
TNext == Infer /\ UNCHANGED <<ivars, uvars, mvars, nvars, xvars, pvars, lvars>>
UNext == UnifyCall /\ UNCHANGED <<ivars, tvars, mvars, nvars, xvars, pvars, lvars>>
MNext == Expand /\ UNCHANGED <<ivars, tvars, uvars, nvars, xvars, pvars, lvars>>
NNext == Normalize /\ UNCHANGED <<ivars, tvars, uvars, mvars, xvars, pvars, lvars>>
XNext == Transform /\ UNCHANGED <<ivars, tvars, uvars, mvars, nvars, pvars, lvars>>
FNext == FixpointStep /\ UNCHANGED <<ivars, tvars, uvars, mvars, nvars, pvars, lvars>>
PNext == (Run \/ GetEAST) /\ UNCHANGED <<ivars, tvars, uvars, mvars, nvars, xvars, lvars>>
LNext == Tokenize /\ UNCHANGED <<ivars, tvars, uvars, mvars, nvars, xvars, pvars>>

InitInterp == IInit /\ TIdle /\ UIdle /\ MIdle /\ NIdle /\ XIdle /\ PIdle /\ LIdle
InitInfer == TRunInit /\ IIdle /\ UIdle /\ MIdle /\ NIdle /\ XIdle /\ PIdle /\ LIdle
InitUnify == UInit /\ IIdle /\ TIdle /\ MIdle /\ NIdle /\ XIdle /\ PIdle /\ LIdle
InitExpand == MInit /\ IIdle /\ TIdle /\ UIdle /\ NIdle /\ XIdle /\ PIdle /\ LIdle
InitNormalize == NInit /\ IIdle /\ TIdle /\ UIdle /\ MIdle /\ XIdle /\ PIdle /\ LIdle
InitTransduce == XInit /\ IIdle /\ TIdle /\ UIdle /\ MIdle /\ NIdle /\ PIdle /\ LIdle
InitFixpoint == FixInit /\ IIdle /\ TIdle /\ UIdle /\ MIdle /\ NIdle /\ PIdle /\ LIdle
InitTreeP == PInit /\ IIdle /\ TIdle /\ UIdle /\ MIdle /\ NIdle /\ XIdle /\ LIdle
InitLex == LInit /\ IIdle /\ TIdle /\ UIdle /\ MIdle /\ NIdle /\ XIdle /\ PIdle

SpecInterp == InitInterp /\ [][INext]_vars
SpecInfer == InitInfer /\ [][TNext]_vars
SpecUnify == InitUnify /\ [][UNext]_vars
SpecExpand == InitExpand /\ [][MNext]_vars
SpecNormalize == InitNormalize /\ [][NNext]_vars
SpecTransduce == InitTransduce /\ [][XNext]_vars
SpecFixpoint == InitFixpoint /\ [][FNext]_vars
SpecTreeP == InitTreeP /\ [][PNext]_vars
SpecLex == InitLex /\ [][LNext]_vars

-----------------------------------------------------------------------------
(* Claims.                                                                 *)

\* the truth value of the program's condition, from its parameters
CondTruth(p) == IF p.cond = "cmp" THEN p.n <= 1 ELSE p.cond = "true"

Printed(tag) == \E i \in 1..Len(ires.out) : ires.out[i] = tag

\* C1: evaluating an `if` runs the then block only when the condition is true;
\* on a false condition the second block, when present, is the one evaluated and
\* gives the result, and without a second block the result is Unit and nothing
\* of the then block runs.
C1_IfSelectsBranch ==
  (ipc = "done" /\ iprog.fam = "if") =>
    /\ ires.err = NoErr
    /\ CondTruth(iprog) => (Printed("then") /\ ~Printed("else") /\ ires.value = IntV(1))
    /\ (~CondTruth(iprog) /\ iprog.hasElse) =>
         (~Printed("then") /\ Printed("else") /\ ires.value = IntV(2))
    /\ (~CondTruth(iprog) /\ ~iprog.hasElse) =>
         (~Printed("then") /\ ires.value = UnitV)

\* C2: factorial(5) of the standard recursive factorial evaluates to Int 120 and
\* println of it prints 120.
C2_FactorialFive ==
  (ipc = "done" /\ iprog.fam = "fact" /\ iprog.n = 5) =>
    (ires.err = NoErr /\ ires.value = IntV(120) /\ ires.out = <<"120">>)

\* C3: type inference raises no error on a def that calls itself by name:
\* `def loop(x) { return loop(x) }` type-checks, and the recursive factorial
\* type-checks with type Int -> Int.
C3_RecursiveDefTypeChecks ==
  /\ (tpc = "done" /\ tprog.fam = "loop") => tres.err = NoErr
  /\ (tpc = "done" /\ tprog.fam = "fact") =>
       (tres.err = NoErr /\ tres.types[1] = makeFun(TCon("Int"), TCon("Int")))

\* C4: with def identity(x) { return x }, identity(<literal of type A>) has type A
\* and identity(<literal of type B>) has type B in one program, for all literal
\* types A and B, with no type error; identity is bound to a scheme that
\* quantifies its one type variable.
C4_IdentityPolymorphic ==
  (tpc = "done" /\ tprog.fam = "ident") =>
    /\ tres.err = NoErr
    /\ tres.types[2] = TCon(tprog.a1)
    /\ tres.types[3] = TCon(tprog.a2)
    /\ LET sc == tres.env["identity"]
       IN /\ Len(sc.typeVars) = 1
          /\ sc.type = makeFun(TVar(sc.typeVars[1]), TVar(sc.typeVars[1]))

C4_Witness ==
  /\ tpc = "done" /\ tprog.fam = "ident" /\ tprog.a1 = "Int" /\ tprog.a2 = "String"
  /\ tres.err = NoErr
  /\ tres.types[2] = TCon("Int") /\ tres.types[3] = TCon("String")

\* C5: an `if` whose then block and else block have different types is rejected
\* with a type error.
C5_IfBranchesUnified ==
  (tpc = "done" /\ tprog.fam = "if" /\ tprog.a2 # "none" /\ tprog.a1 # tprog.a2) =>
    tres.err # NoErr

\* the call unify(t1, t2) meets a type variable on one side (after apply) and a
\* function type in which that variable occurs on the other
OccursCase(c) ==
  LET a1 == apply(c.before, c.t1)
      a2 == apply(c.before, c.t2)
  IN \/ a1.kind = "TypeVar" /\ a2.kind = "TypeFun"
        /\ a1.name \in Range(freeVarsList(c.before, a2))
     \/ a1.kind = "TypeFun" /\ a2.kind = "TypeVar"
        /\ a2.name \in Range(freeVarsList(c.before, a1))

\* C6: unifying a type variable with a function type in which it occurs throws,
\* and the substitution is left as it was (no binding is added).
C6_OccursCheckRejects ==
  (ucall.n > 0 /\ OccursCase(ucall)) => (ust.err # NoErr /\ ust.subst = ucall.before)

C6_Witness ==
  /\ ucall.n > 0
  /\ ucall.t1 = TVar(VarName(0))
  /\ ucall.t2 = makeFun(TVar(VarName(0)), TVar(VarName(1)))
  /\ OccursCase(ucall)
  /\ ust.err # NoErr

\* C7: a call of a def with a number of arguments different from the def's
\* parameter count is a type error, with too many and with too few arguments.
C7_ArityMismatchRejected ==
  (tpc = "done" /\ tprog.fam = "arity" /\ tprog.m # tprog.k) => tres.err # NoErr

\* a node of kind call named after a registered macro, at any depth
RECURSIVE HasMacroCall(_)
HasMacroCall(elem) ==
  \/ elem.kind = "call" /\ elem.name \in MacroNames
  \/ \E i \in 1..Len(elem.children) : HasMacroCall(elem.children[i])

\* every macro call of the tree has an argument for each pattern variable
RECURSIVE EnoughArgs(_)
EnoughArgs(elem) ==
  /\ (elem.kind = "call" /\ elem.name \in MacroNames)
       => Len(elem.children) >= Len(MacroPattern[elem.name])
  /\ \A i \in 1..Len(elem.children) : EnoughArgs(elem.children[i])

\* C8: when every macro call of the input has an argument for each variable of
\* its pattern, the tree expand returns holds no call to a registered macro at
\* any depth, whether the macro call stood in an argument of another macro
\* call, in a block, or in an argument of an ordinary call.
C8_NoMacroCallSurvives ==
  (Len(mhist) >= 2 /\ \A i \in 1..Len(mhist[1]) : EnoughArgs(mhist[1][i]))
    => \A i \in 1..Len(mhist[2]) : ~HasMacroCall(mhist[2][i])

\* an expansion was returned for a macro call that holds a macro call nested in
\* a macro call in its first argument and sits inside a def's block
C8_Witness ==
  /\ Len(mhist) >= 2
  /\ mprog.first = "traceDec"
  /\ mprog.second = "thunkMacro"
  /\ mprog.wrap = "def"
  /\ \A i \in 1..Len(mhist[1]) : EnoughArgs(mhist[1][i])

\* lift(body) of the macro table: the block of a lambda whose only child is a
\* block, else block[body]
lift(body) ==
  IF body.kind = "lambda" /\ Len(body.children) = 1 /\ body.children[1].kind = "block"
  THEN body.children[1]
  ELSE Elem("block", NoName, <<>>, <<body>>)

BodyMacros == {"when", "ifZero", "ifPositive", "until"}

\* C9: the expansion of when / ifZero / ifPositive / until called with a body
\* argument has lift(body) (with the macro calls inside it expanded) as its
\* then / loop block: no call or lambda node wraps the body.
C9_BodyIsLifted ==
  (/\ Len(mhist) >= 2
   /\ mprog.wrap = "top"
   /\ mprog.macro \in BodyMacros
   /\ mprog.second # "none")
    => mhist[2][1].children[2] = expandElement(mvariant, lift(SecondArg(mprog.second))).t

\* C10: expand applied to a tree that expand returned gives that tree back.
C10_ExpandIdempotent ==
  \A k \in 2..(Len(mhist) - 1) : mhist[k + 1] = mhist[k]

\* expand ran twice on an input that its first run changed
C10_Witness ==
  /\ Len(mhist) >= 3
  /\ mhist[2] # mhist[1]
  /\ mhist[3] = mhist[2]
  /\ mprog.first = "when"

\* C11: the call written with a trailing block normalizes to the same element
\* tree as the call written with a parameterless lambda as last argument: a
\* call with n+1 children whose last child is a lambda with exactly one child,
\* the block.
C11_BlockArgIsTrailingLambda ==
  npc = "done" =>
    /\ nres.sugar = nres.plain
    /\ nres.sugar.kind = "call" /\ nres.sugar.name = nprog.callee
    /\ Len(nres.sugar.children) = Len(nprog.args) + 1
    /\ LET last == nres.sugar.children[Len(nprog.args) + 1]
       IN /\ last.kind = "lambda"
          /\ last.children = <<normalizeNode(NBlock(nprog.block))>>
          /\ last.children[1].kind = "block"

\* a call with two arguments, one of them itself a call with a trailing block,
\* and a block that holds another such call, was normalized
C11_Witness ==
  /\ npc = "done"
  /\ Len(nprog.args) = 2 /\ nprog.args[2] = "callBlock"
  /\ nprog.block = "nested"
  /\ nres.sugar.children[3].kind = "lambda"

\* C13: after expand returned, every node of the input tree is as it was before
\* the call, so the macro calls of the input are still in it.
C13_ExpandLeavesInputAlone ==
  (Len(mhist) >= 2 /\ merr = NoErr) => minput = mhist[1]


\* C12: transform never modifies its input tree: once transform(T) has
\* returned, the tree under the object handed in is the tree it was before the
\* call, also when a fired rule's var-template emitted a bound subtree of the
\* input whose children other rules then rewrote.
C12_TransformLeavesInputAlone ==
  (xpc = "done" /\ xerr = NoErr) => Deref(xheap, xin) = xprog.tree

\* the condition of the rule tagged tag holds and its pattern matches the tree
RuleHolds(tag, tree) ==
  /\ tree.kind = "call"
  /\ Len(tree.children) = 2
  /\ \/ tag = "any"
     \/ tag = "plus" /\ tree.name = "+"
     \/ tag = "times" /\ tree.name = "*"

\* the position of the earliest rule that holds, 0 when there is none
EarliestHolding(order, tree) ==
  LET hits == {i \in 1..Len(order) : RuleHolds(order[i], tree)}
  IN IF hits = {} THEN 0 ELSE CHOOSE i \in hits : \A j \in hits : i <= j

\* C14: at a node the rule applied is the earliest rule in declaration order
\* whose pattern matches and whose condition, if any, is true: an earlier rule
\* that matches with a false condition does not stop a later one from firing,
\* and no rule after the fired one is applied; when no rule holds the node is
\* returned as it is.
C14_EarliestHoldingRuleFires ==
  (xpc = "done" /\ xprog.fam = "order") =>
    /\ xerr = NoErr
    /\ LET i == EarliestHolding(xprog.order, xprog.tree)
       IN Deref(xheap, xout) =
            IF i = 0 THEN xprog.tree
            ELSE Elem(xprog.order[i], xprog.tree.name, <<>>, <<>>)

\* C14 witness: never, plus, any on x + 0: the first matches with a false
\* condition, the second fired, the third was not applied
C14_Witness ==
  /\ xpc = "done"
  /\ xprog.fam = "order"
  /\ xprog.order = <<"never", "plus", "any">>
  /\ xprog.tree.name = "+"
  /\ xerr = NoErr
  /\ Deref(xheap, xout).kind = "plus"

\* the first k children of the tree are there and are variables
FixedMatch(tree, k) ==
  Len(tree.children) >= k /\ \A i \in 1..k : tree.children[i].kind = "var"

\* C15: a kind-pattern of k fixed child-patterns closed by a rest-capture r
\* matches a node exactly when the node has at least k children and the first k
\* match position by position, and r is then bound to the children from
\* position k on, in order (none when there are exactly k); a kind-pattern of
\* k >= 1 child-patterns without a rest-capture matches only a node of exactly
\* k children.
C15_RestCaptureBindsTail ==
  (xpc = "done" /\ xprog.fam = "rest" /\ (xprog.rest \/ xprog.k >= 1)) =>
    /\ xerr = NoErr
    /\ LET tree == xprog.tree
           n == Len(tree.children)
           matches == /\ FixedMatch(tree, xprog.k)
                      /\ xprog.rest \/ n = xprog.k
       IN Deref(xheap, xout) =
            IF matches THEN Elem("hit", NoName, <<>>, SubSeq(tree.children, xprog.k + 1, n))
            ELSE tree

\* C16: with rule 1 built as matchKind('def', {captureNameAs: 'fname',
\* captureChildrenAs: 'kids'}) . generateNode('function', {name: {var: 'fname'},
\* children: [{list: 'kids'}]}) and rule 2 renaming param to argument,
\* transform of def(add, [param x, param y]) returns
\* function(add, [argument x, argument y]) and raises no error.
C16_DslRenameKeepsChildren ==
  (xpc = "done" /\ xprog.fam = "dsl" /\ xprog.tree = DefTree("add", 2)) =>
    /\ xerr = NoErr
    /\ Deref(xheap, xout) =
         Elem("function", "add", <<>>,
              <<Elem("argument", "x", <<>>, <<>>), Elem("argument", "y", <<>>, <<>>)>>)

\* C17: a transducer built with an empty rule list returns, for every input
\* tree, a tree structurally equal to it: the same kind, name, attrs and the
\* same children in the same order at every node.
C17_EmptyRulesIdentity ==
  (xpc = "done" /\ xprog.fam = "empty") =>
    (xerr = NoErr /\ Deref(xheap, xout) = xprog.tree)

\* C17 witness: the identity on ((x + 0) * 1) + 0, returned as a fresh copy
C17_Witness ==
  /\ xpc = "done"
  /\ xprog.fam = "empty"
  /\ xprog.tree = NestedIdentity
  /\ xout # xin
  /\ Deref(xheap, xout) = NestedIdentity

\* the node has an attribute with this key and this value
HasAttr(tree, key, value) ==
  \E i \in 1..Len(tree.attrs) : tree.attrs[i].key = key /\ tree.attrs[i].value = value

\* C18: a kind-pattern with an attribute pattern (key, literal) matches a node
\* only if the node has an attribute with that key whose value equals the
\* literal, for every literal, the empty string included; it fails when the key
\* is absent.
C18_AttrLiteralMustEqual ==
  (xpc = "done" /\ xprog.fam = "attr" /\ xerr = NoErr /\ Deref(xheap, xout).kind = "hit") =>
    HasAttr(xprog.tree, xprog.key, xprog.literal)

\* C19: with the rules def (nameVar fname) -> function (name fname) and param
\* (nameVar pname) -> argument (name pname), neither with child patterns or
\* child templates, transform of def(myFunction, [param x, param y]) returns a
\* function node named myFunction whose children are [argument x, argument y]:
\* the children of a rewritten node are kept and transformed.
C19_RenameKeepsChildren ==
  (xpc = "done" /\ xprog.fam = "rename" /\ xprog.tree = DefTree("myFunction", 2)) =>
    /\ xerr = NoErr
    /\ Deref(xheap, xout) =
         Elem("function", "myFunction", <<>>,
              <<Elem("argument", "x", <<>>, <<>>), Elem("argument", "y", <<>>, <<>>)>>)

\* C20: the arithmetic-identity transducer applied in fixpoint mode (transform
\* again until the output equals its input) to ((x + 0) * 1) + 0 ends with
\* var(x), after at most 3 transform calls.
C20_FixpointReachesX ==
  (xpc = "done" /\ xprog.tree = NestedIdentity
     /\ xprog.maxIterations = DefaultMaxIterations) =>
    /\ xerr = NoErr
    /\ Deref(xheap, xout) = XVar("x")
    /\ xiter <= 3

\* C20 witness: the loop on ((x + 0) * 1) + 0 has ended on var(x) with its
\* third call, the one that changed nothing
C20_Witness ==
  /\ xpc = "done"
  /\ xprog.tree = NestedIdentity
  /\ xprog.maxIterations = DefaultMaxIterations
  /\ xiter = 3
  /\ Deref(xheap, xout) = XVar("x")

\* what a run of the return programs prints: f prints "iter" and returns; the
\* looping caller prints f() twice, then "caller", then calls f once more
ReturnOutput(p) ==
  IF p.style = "loop"
  THEN <<"iter", ToString(p.n), "iter", ToString(p.n), "caller", "iter">>
  ELSE <<"iter", "caller">>

\* C21: when a user-defined function executes `return e`, no later statement
\* of its body runs (the rest of an enclosing while / for / if body and the
\* statements after it included), the call evaluates to the value of e, and
\* the return latch is clear once the call has returned, so the caller's
\* following statements run.
C21_ReturnEndsTheCall ==
  (ipc = "done" /\ iprog.fam = "ret") =>
    /\ ires.err = NoErr
    /\ ires.out = ReturnOutput(iprog)
    /\ ires.value = IntV(iprog.n)
    /\ ires.ret = NoRet

\* C21 witness: a return inside a while loop, in a function called from a for
\* loop that went on to its second round
C21_Witness ==
  /\ ipc = "done"
  /\ iprog.fam = "ret"
  /\ iprog.shape = "while"
  /\ iprog.style = "loop"
  /\ ires.out = ReturnOutput(iprog)
  /\ ires.value = IntV(iprog.n)

\* C22: evaluating the call `/` with Int operands a and 0 raises a runtime
\* error; no value is returned for a division by zero.
C22_DivisionByZeroRaises ==
  (ipc = "done" /\ iprog.fam = "div" /\ iprog.shape = "quot" /\ iprog.b = 0) =>
    ires.err # NoErr

\* C30: for all Int a and all Int b # 0, negative ones included, the runtime
\* operators satisfy (a / b) * b + (a % b) = a.
C30_DivModIdentity ==
  (ipc = "done" /\ iprog.fam = "div" /\ iprog.shape = "identity") =>
    (ires.err = NoErr /\ ires.value = IntV(iprog.a))

\* C23: expanding a call to a built-in macro with fewer arguments than the
\* macro's pattern has variables raises an error: expand never returns a tree
\* for such an input.
C23_MissingArgumentRaises ==
  (\E i \in 1..Len(mhist[1]) : ~EnoughArgs(mhist[1][i])) => Len(mhist) = 1

\* C23 witness: expand threw on a call of a two-variable macro with one
\* argument, and on a call without arguments
C23_Witness ==
  /\ merr # NoErr
  /\ Len(mhist) = 1
  /\ mprog.second = "none"
  /\ Len(MacroPattern[mprog.macro]) = 2 \/ mprog.first = "none"

\* C24: running `let x = n; inc(x); x` (or dec) on a fresh TreeP raises no
\* error, in inference or in execution, and returns n + 1 (n - 1 for dec), the
\* value x holds after the expanded assignment
C24_IncDecUpdatesVariable ==
  (Len(plog) >= 1 /\ plog[1].op = "run" /\ pprog.fam = "incdec") =>
    /\ plog[1].err = NoErr
    /\ plog[1].value = IntV(IF pprog.shape = "inc" THEN pprog.n + 1 ELSE pprog.n - 1)

\* what a single run() on a fresh instance built from the same source gives
FreshRun(p) == run(p, 0, TInit, InterpInit)
FreshEAST(p) == getEAST(p, 0)

\* C27: every run() on an instance returns the value, prints the lines and
\* raises the error of a single run() on a fresh instance of the same source,
\* and every getEAST() returns the tree of a getEAST() on a fresh instance
C27_CallsAreIndependent ==
  \A i \in 1..Len(plog) :
    /\ plog[i].op = "run" =>
         /\ plog[i].value = FreshRun(pprog).value
         /\ plog[i].out = FreshRun(pprog).out
         /\ plog[i].err = FreshRun(pprog).err
    /\ plog[i].op = "getEAST" =>
         /\ plog[i].east = FreshEAST(pprog).east
         /\ plog[i].err = FreshEAST(pprog).err

\* an input with no comment and no escape: its double quotes pair up from the
\* left, so a string literal is left open exactly when their number is odd
Quotes(input) == {i \in 1..Len(input) : input[i] = "\""}
OpenString(input) ==
  /\ \A i \in 1..Len(input) : input[i] \notin {"/", "\\"}
  /\ Cardinality(Quotes(input)) % 2 = 1

\* C25: tokenize raises an error on every input in which a string literal is
\* opened and not closed before the end of the input
C25_UnterminatedStringRaises ==
  (lpc = "done" /\ OpenString(linput)) => lres.err # NoErr

\* the type variables written in a type, the substitution not applied
RECURSIVE VarsOf(_)
VarsOf(type) ==
  IF type.kind = "TypeVar" THEN {type.name}
  ELSE IF type.kind = "TypeFun" THEN VarsOf(type.from) \cup VarsOf(type.to)
  ELSE {}

\* the variables reached from a set of variables in at most k binding steps
RECURSIVE ReachedIn(_, _, _)
ReachedIn(sub, S, k) ==
  IF k = 0 THEN S
  ELSE ReachedIn(sub, S \cup UNION {VarsOf(sub[n]) : n \in S \cap DOMAIN sub}, k - 1)

Acyclic(sub) ==
  \A n \in DOMAIN sub : n \notin ReachedIn(sub, VarsOf(sub[n]), Cardinality(DOMAIN sub))

\* C26: a unify call keeps every binding the substitution had before it, the
\* substitution stays acyclic, and applying it twice to a type gives what
\* applying it once gives
C26_SubstitutionOnlyGrows ==
  /\ \A n \in DOMAIN ucall.before :
       n \in DOMAIN ust.subst /\ ust.subst[n] = ucall.before[n]
  /\ Acyclic(ust.subst)
  /\ \A t \in UTypes : apply(ust.subst, apply(ust.subst, t)) = apply(ust.subst, t)

\* a second unify call has added a binding to a substitution that had one
C26_Witness ==
  /\ ucall.n = 2
  /\ DOMAIN ucall.before # {}
  /\ DOMAIN ust.subst # DOMAIN ucall.before
  /\ ust.err = NoErr
  /\ \E n \in DOMAIN ucall.before : n \in VarsOf(ucall.t1) \cup VarsOf(ucall.t2)

\* C28: the rule matchKind("literal", {attrs: [{key, value}]}) -> hit rewrites
\* a literal node only if the node has an attribute with that key and value
C28_DslAttrsRestrictMatch ==
  (xpc = "done" /\ xprog.fam = "dslattr" /\ xerr = NoErr /\ Deref(xheap, xout).kind = "hit") =>
    HasAttr(xprog.tree, xprog.key, xprog.literal)

\* the annotations of `def f(x: a1) returns: a2 { return <body> }` contradict
\* the body: `return x` makes the two types equal, `return x + 1` makes both Int
Contradicts(p) ==
  IF p.body = "first" THEN p.a1 # "none" /\ p.a2 # "none" /\ p.a1 # p.a2
  ELSE p.a1 \notin {"none", "Int"} \/ p.a2 \notin {"none", "Int"}

\* C29: inference raises an error on a def whose declared parameter type or
\* declared return type contradicts the type its body has
C29_AnnotationsAreChecked ==
  (tpc = "done" /\ tprog.fam = "annot" /\ Contradicts(tprog)) => tres.err # NoErr

=============================================================================
